---- MODULE Spec2Model ----
(***************************************************************************)
(* Model of the agent tool-calling loop of deepagent-coder                 *)
(* (CodingDeepAgent._agent_invoke), its text tool-call extraction, its     *)
(* path handling and the middleware pass that precedes it.                 *)
(*                                                                         *)
(* A Python string is a sequence of symbols.  A symbol is one character    *)
(* the code inspects ("{", "}", a quote, a backslash, "/", ...) or a run   *)
(* of characters that no operation of the code splits (a word).            *)
(* Sequences are 1-based here and 0-based in the source.                   *)
(***************************************************************************)
EXTENDS Integers, Sequences, FiniteSets, TLC

LB == "{"
RB == "}"
LS == "["
RS == "]"
Q  == "\""
BS == "\\"
CM == ","
CL == ":"
SP == " "
NL == "\n"
SL == "/"

(***************************************************************************)
(* JSON values as json.loads builds them.                                  *)
(***************************************************************************)
JStr(s) == [t |-> "str", v |-> s]
JLit(w) == [t |-> "lit", v |-> <<w>>]
JArr(xs) == [t |-> "arr", v |-> xs]
JObj(ps) == [t |-> "obj", v |-> ps]
JNone == [t |-> "none", v |-> <<>>]

\* bare words json.loads accepts outside a string
Literals == {"1", "0", "true", "null"}

\* str.strip() and the JSON decoder's whitespace
IsWS(c) == c \in {SP, NL}

\* the characters json.loads accepts after a backslash inside a string
Escapable == {Q, BS, SL, "n"}

Unescape(c) == IF c = "n" THEN NL ELSE c

ParseFail == [ok |-> FALSE, val |-> JNone, pos |-> 0]

ParseOk(val, pos) == [ok |-> TRUE, val |-> val, pos |-> pos]

RECURSIVE SkipWS(_, _)
SkipWS(s, i) ==
    IF i <= Len(s) /\ IsWS(s[i]) THEN SkipWS(s, i + 1) ELSE i

\* the body of a JSON string, from just after its opening quote
RECURSIVE ScanString(_, _, _)
ScanString(s, i, acc) ==
    IF i > Len(s) THEN ParseFail
    ELSE IF s[i] = Q THEN ParseOk(JStr(acc), i + 1)
    ELSE IF s[i] = BS
         THEN IF i + 1 <= Len(s) /\ s[i + 1] \in Escapable
              THEN ScanString(s, i + 2, Append(acc, Unescape(s[i + 1])))
              ELSE ParseFail
    ELSE IF s[i] = NL THEN ParseFail
    ELSE ScanString(s, i + 1, Append(acc, s[i]))

RECURSIVE ParseValue(_, _)
RECURSIVE ParseMembers(_, _, _)
RECURSIVE ParseElements(_, _, _)

ParseMembers(s, i, acc) ==
    IF i > Len(s) \/ s[i] # Q THEN ParseFail
    ELSE LET key == ScanString(s, i + 1, <<>>)
         IN IF ~key.ok THEN ParseFail
            ELSE LET c == SkipWS(s, key.pos)
                 IN IF c > Len(s) \/ s[c] # CL THEN ParseFail
                    ELSE LET val == ParseValue(s, SkipWS(s, c + 1))
                         IN IF ~val.ok THEN ParseFail
                            ELSE LET e == SkipWS(s, val.pos)
                                     acc2 == Append(acc, [k |-> key.val.v, val |-> val.val])
                                 IN IF e > Len(s) THEN ParseFail
                                    ELSE IF s[e] = RB THEN ParseOk(JObj(acc2), e + 1)
                                    ELSE IF s[e] = CM
                                         THEN ParseMembers(s, SkipWS(s, e + 1), acc2)
                                    ELSE ParseFail

ParseElements(s, i, acc) ==
    LET val == ParseValue(s, i)
    IN IF ~val.ok THEN ParseFail
       ELSE LET e == SkipWS(s, val.pos)
                acc2 == Append(acc, val.val)
            IN IF e > Len(s) THEN ParseFail
               ELSE IF s[e] = RS THEN ParseOk(JArr(acc2), e + 1)
               ELSE IF s[e] = CM THEN ParseElements(s, SkipWS(s, e + 1), acc2)
               ELSE ParseFail

ParseValue(s, i) ==
    IF i > Len(s) THEN ParseFail
    ELSE IF s[i] = LB
         THEN LET j == SkipWS(s, i + 1)
              IN IF j <= Len(s) /\ s[j] = RB THEN ParseOk(JObj(<<>>), j + 1)
                 ELSE ParseMembers(s, j, <<>>)
    ELSE IF s[i] = LS
         THEN LET j == SkipWS(s, i + 1)
              IN IF j <= Len(s) /\ s[j] = RS THEN ParseOk(JArr(<<>>), j + 1)
                 ELSE ParseElements(s, j, <<>>)
    ELSE IF s[i] = Q THEN ScanString(s, i + 1, <<>>)
    ELSE IF s[i] \in Literals THEN ParseOk(JLit(s[i]), i + 1)
    ELSE ParseFail

\* json.loads(s): one value, surrounded by whitespace only
JsonLoads(s) ==
    LET r == ParseValue(s, SkipWS(s, 1))
    IN IF r.ok /\ SkipWS(s, r.pos) > Len(s) THEN r ELSE ParseFail

(***************************************************************************)
(* dict operations on a parsed object (a sequence of key/value pairs, the  *)
(* last pair of a key wins, as in json.loads).                             *)
(***************************************************************************)
HasKey(obj, key) == \E n \in 1..Len(obj.v) : obj.v[n].k = key

GetKey(obj, key) ==
    LET n == CHOOSE m \in 1..Len(obj.v) :
                 /\ obj.v[m].k = key
                 /\ \A l \in (m + 1)..Len(obj.v) : obj.v[l].k # key
    IN obj.v[n].val

\* d.get(key) / d.get(key, default)
GetOr(obj, key, default) == IF HasKey(obj, key) THEN GetKey(obj, key) ELSE default

\* d[key] = val
SetKey(obj, key, val) ==
    IF HasKey(obj, key)
    THEN JObj([n \in 1..Len(obj.v) |->
                 IF obj.v[n].k = key THEN [k |-> key, val |-> val] ELSE obj.v[n]])
    ELSE JObj(Append(obj.v, [k |-> key, val |-> val]))

K_name == <<"name">>
K_arguments == <<"arguments">>
K_parameters == <<"parameters">>
K_path == <<"path">>
K_file_path == <<"file_path">>

\* Normalize that leaves "parameters" where it is
Normalize_NoCopy(obj) == obj

\* "parameters" is accepted for "arguments"
Normalize(obj) ==
    IF HasKey(obj, K_parameters) /\ ~HasKey(obj, K_arguments)
    THEN SetKey(obj, K_arguments, GetKey(obj, K_parameters))
    ELSE obj

\* the tool calls one decoded value contributes
Accepted(val) ==
    IF val.t = "obj" /\ HasKey(val, K_name) /\ HasKey(Normalize(val), K_arguments)
    THEN <<Normalize(val)>>
    ELSE <<>>

RECURSIVE AcceptedAll(_)
AcceptedAll(xs) ==
    IF xs = <<>> THEN <<>> ELSE Accepted(Head(xs)) \o AcceptedAll(Tail(xs))

\* strings.strip()
RECURSIVE StripLeft(_)
StripLeft(s) == IF s # <<>> /\ IsWS(Head(s)) THEN StripLeft(Tail(s)) ELSE s

RECURSIVE StripRight(_)
StripRight(s) ==
    IF s # <<>> /\ IsWS(s[Len(s)]) THEN StripRight(SubSeq(s, 1, Len(s) - 1)) ELSE s

Strip(s) == StripRight(StripLeft(s))

\* Strategy 1: the whole content as one JSON value
Strategy1(content) ==
    LET parsed == JsonLoads(Strip(content))
    IN IF ~parsed.ok THEN <<>>
       ELSE IF parsed.val.t = "arr" THEN AcceptedAll(parsed.val.v)
       ELSE Accepted(parsed.val)

\* the inner for-loop without the string and escape tracking
RECURSIVE MatchClose_Naive(_, _, _, _, _)
MatchClose_Naive(content, j, brace_count, in_string, escape_next) ==
    IF j > Len(content) THEN 0
    ELSE IF content[j] = LB
         THEN MatchClose_Naive(content, j + 1, brace_count + 1, in_string, escape_next)
    ELSE IF content[j] = RB
         THEN IF brace_count - 1 = 0 THEN j
              ELSE MatchClose_Naive(content, j + 1, brace_count - 1, in_string, escape_next)
    ELSE MatchClose_Naive(content, j + 1, brace_count, in_string, escape_next)

\* the inner for-loop of strategy 2: the index of the "}" that balances the
\* "{" the scan started at, or 0 when the content ends first
RECURSIVE MatchClose(_, _, _, _, _)
MatchClose(content, j, brace_count, in_string, escape_next) ==
    IF j > Len(content) THEN 0
    ELSE IF escape_next THEN MatchClose(content, j + 1, brace_count, in_string, FALSE)
    ELSE IF content[j] = BS THEN MatchClose(content, j + 1, brace_count, in_string, TRUE)
    ELSE LET ins == IF content[j] = Q THEN ~in_string ELSE in_string
         IN IF ins THEN MatchClose(content, j + 1, brace_count, ins, FALSE)
            ELSE IF content[j] = LB
                 THEN MatchClose(content, j + 1, brace_count + 1, ins, FALSE)
            ELSE IF content[j] = RB
                 THEN IF brace_count - 1 = 0 THEN j
                      ELSE MatchClose(content, j + 1, brace_count - 1, ins, FALSE)
            ELSE MatchClose(content, j + 1, brace_count, ins, FALSE)

\* "i += 1" at the end of the outer while-loop that leaves the index alone
NextScanIndex_Stay(i) == i

\* "i += 1" at the end of the body of the outer while-loop of strategy 2
NextScanIndex(i) == i + 1

\* the outer loop going on inside the span it has just examined
ResumeAt_Inside(i, j) == NextScanIndex(i)

\* where the outer while-loop of strategy 2 goes on after the span i..j:
\* "i = j; break" and then "i += 1"
ResumeAt(i, j) == NextScanIndex(j)

\* the tool calls the span i..j contributes (json.loads failures are skipped)
SpanCalls(content, i, j) ==
    LET obj == JsonLoads(SubSeq(content, i, j))
    IN IF obj.ok THEN Accepted(obj.val) ELSE <<>>

\* Strategy 2: the outer while-loop, from index i
RECURSIVE Scan(_, _)
Scan(content, i) ==
    IF i > Len(content) THEN <<>>
    ELSE IF content[i] = LB
         THEN LET j == MatchClose(content, i, 0, FALSE, FALSE)
              IN IF j = 0 THEN Scan(content, NextScanIndex(i))
                 ELSE SpanCalls(content, i, j) \o Scan(content, ResumeAt(i, j))
    ELSE Scan(content, NextScanIndex(i))

Strategy2(content) == Scan(content, 1)

\* strategy 2 restricted to the replies that are not JSON as a whole
RunsStrategy2_OnParseFailure(content) == ~JsonLoads(Strip(content)).ok

\* "if not tool_calls:" after strategy 1
RunsStrategy2(content) == Strategy1(content) = <<>>

\* the tool calls extracted from a reply without structured tool calls
ExtractToolCalls(content) ==
    IF RunsStrategy2(content) THEN Strategy2(content) ELSE Strategy1(content)

(***************************************************************************)
(* Python values as text and as conditions.                                *)
(***************************************************************************)
\* str(x) of a decoded value, as an f-string renders it
ToStr(x) ==
    IF x.t = "str" THEN x.v
    ELSE IF x.t = "lit"
         THEN (IF x.v[1] = "null" THEN <<"None">>
               ELSE IF x.v[1] = "true" THEN <<"True">> ELSE x.v)
    ELSE IF x.t = "none" THEN <<"None">>
    ELSE <<"<repr>">>

\* bool(x)
Truthy(x) ==
    IF x.t = "lit" THEN x.v[1] \notin {"0", "null"}
    ELSE x.v # <<>>

\* str.lower() of one symbol
LowerSym(c) ==
    CASE c = "WRITE_FILE" -> "write_file"
      [] c = "Force" -> "force"
      [] c = "Push" -> "push"
      [] c = "Git" -> "git"
      [] c = "Hard" -> "hard"
      [] OTHER -> c

Lower(s) == [n \in 1..Len(s) |-> LowerSym(s[n])]

\* the symbols in which the characters write_file occur
WriteFileSyms == {"write_file", "safe_write_file"}

\* the symbols in which the characters create_directory occur
CreateDirectorySyms == {"create_directory"}

\* "write_file" in name.lower()
ContainsWriteFile(s) == \E n \in 1..Len(s) : LowerSym(s[n]) \in WriteFileSyms

\* "create_directory" in name.lower()
ContainsCreateDirectory(s) == \E n \in 1..Len(s) : LowerSym(s[n]) \in CreateDirectorySyms

(***************************************************************************)
(* pathlib paths: a root flag and the segments.  Path() drops empty and    *)
(* "." segments; a segment is one symbol.                                  *)
(***************************************************************************)
RECURSIVE Segments(_)
Segments(s) ==
    IF s = <<>> THEN <<>>
    ELSE IF Head(s) \in {SL, "."} THEN Segments(Tail(s))
    ELSE <<Head(s)>> \o Segments(Tail(s))

\* Path(s)
PathOf(s) == [abs |-> s # <<>> /\ s[1] = SL, segs |-> Segments(s)]

RECURSIVE JoinSegs(_)
JoinSegs(segs) ==
    IF Len(segs) <= 1 THEN segs
    ELSE <<Head(segs), SL>> \o JoinSegs(Tail(segs))

\* str(path)
PathStr(p) ==
    IF p.segs = <<>> THEN (IF p.abs THEN <<SL>> ELSE <<".">>)
    ELSE (IF p.abs THEN <<SL>> ELSE <<>>) \o JoinSegs(p.segs)

\* path.parent
Parent(p) ==
    IF p.segs = <<>> THEN p
    ELSE [p EXCEPT !.segs = SubSeq(p.segs, 1, Len(p.segs) - 1)]

\* base / other
PathJoin(base, other) ==
    IF other.abs THEN other
    ELSE [abs |-> base.abs, segs |-> base.segs \o other.segs]

\* path.resolve() of an absolute path in a tree without symbolic links
RECURSIVE ResolveSegs(_, _)
ResolveSegs(segs, acc) ==
    IF segs = <<>> THEN acc
    ELSE IF Head(segs) = ".."
         THEN ResolveSegs(Tail(segs),
                          IF acc = <<>> THEN acc ELSE SubSeq(acc, 1, Len(acc) - 1))
    ELSE ResolveSegs(Tail(segs), Append(acc, Head(segs)))

Resolve(p) == [abs |-> TRUE, segs |-> ResolveSegs(p.segs, <<>>)]

\* self.workspace
Workspace == [abs |-> TRUE, segs |-> <<"ws">>]

\* s.startswith("./")
StartsWithDotSlash(s) == Len(s) >= 2 /\ s[1] = "." /\ s[2] = SL

\* s[2:] when s starts with "./"
StripDotSlash(s) == IF StartsWithDotSlash(s) THEN SubSeq(s, 3, Len(s)) ELSE s

\* the absolute workspace path of a relative path string
ToWorkspacePath(s) == PathStr(Resolve(PathJoin(Workspace, PathOf(StripDotSlash(s)))))

\* the tool names whose path argument the text branch rewrites
PathFixTools == {<<"write_file">>, <<"read_file">>, <<"read_text_file">>, <<"edit_file">>}

(***************************************************************************)
(* Conversation state: the dict _agent_invoke receives.  keys is the set   *)
(* of keys present; a field whose key is absent holds a placeholder.       *)
(***************************************************************************)
Msg(role, content) == [role |-> role, content |-> content]

NoMetadata == [compacted_count |-> 0, kept_count |-> 0, original_count |-> 0, new_count |-> 0]

StateOf(messages, keys, error) ==
    [keys |-> keys, messages |-> messages, error |-> error, retry_count |-> 0,
     max_retries_reached |-> FALSE, git_operation_blocked |-> FALSE,
     compaction_metadata |-> NoMetadata]

\* state.get("messages", [])
MessagesOf(st) == IF "messages" \in st.keys THEN st.messages ELSE <<>>

\* create_memory_middleware(keep_recent=10)
KeepRecent == 10

\* middleware.memory.threshold of the configuration
Threshold == 2

\* middleware.error_recovery.max_retries of the configuration
MaxRetries == 3

RECURSIVE TotalChars(_)
TotalChars(messages) ==
    IF messages = <<>> THEN 0
    ELSE Len(Head(messages).content) + TotalChars(Tail(messages))

\* should_compact that already triggers at the threshold
ShouldCompact_Inclusive(messages) == (TotalChars(messages) \div 4) >= Threshold

\* MemoryCompactor.should_compact
ShouldCompact(messages) == (TotalChars(messages) \div 4) > Threshold

\* messages[-keep_recent:] that starts one entry too late
LastN_OffByOne(messages, n) ==
    IF n = 0 \/ n >= Len(messages) THEN messages
    ELSE SubSeq(messages, Len(messages) - n + 2, Len(messages))

\* messages[-keep_recent:]
LastN(messages, n) ==
    IF n = 0 \/ n >= Len(messages) THEN messages
    ELSE SubSeq(messages, Len(messages) - n + 1, Len(messages))

\* messages[:-keep_recent]
AllButLastN(messages, n) ==
    IF n = 0 THEN <<>>
    ELSE IF n >= Len(messages) THEN <<>>
    ELSE SubSeq(messages, 1, Len(messages) - n)

CountRole(messages, role) == Cardinality({n \in 1..Len(messages) : messages[n].role = role})

\* MemoryCompactor._create_fallback_summary
FallbackSummary(older) ==
    <<"Previous conversation context: ", ToString(Len(older)), " messages exchanged (",
      ToString(CountRole(older, "user")), " user, ",
      ToString(CountRole(older, "assistant")), " assistant). ",
      "Full context available in conversation history.">>

\* what the summarizer model does when asked: answer, fail, or be unavailable
SummarizerOutcomes == {"summary", "raise", "no_model"}

\* compact_conversation without the except clause around the summarizer call
CompactConversation_Raises(messages, keep_recent, outcome) ==
    IF Len(messages) <= keep_recent THEN [ok |-> TRUE, summary |-> <<>>]
    ELSE IF outcome = "summary" THEN [ok |-> TRUE, summary |-> <<"summary text">>]
    ELSE [ok |-> FALSE, summary |-> <<>>]

\* MemoryCompactor.compact_conversation; ok = FALSE when it raises
CompactConversation(messages, keep_recent, outcome) ==
    IF Len(messages) <= keep_recent THEN [ok |-> TRUE, summary |-> <<>>]
    ELSE IF outcome = "no_model" THEN [ok |-> FALSE, summary |-> <<>>]
    ELSE IF outcome = "summary" THEN [ok |-> TRUE, summary |-> <<"summary text">>]
    ELSE [ok |-> TRUE, summary |-> FallbackSummary(AllButLastN(messages, keep_recent))]

\* compact_with_summary that keeps the oldest entries instead of the newest
CompactWithSummary_KeepsHead(messages, summary, keep_recent) ==
    IF Len(messages) <= keep_recent THEN messages
    ELSE <<Msg("system", <<"[Conversation Summary]", NL, NL>> \o summary)>>
         \o SubSeq(messages, 1, keep_recent)

\* MemoryCompactor.compact_with_summary
CompactWithSummary(messages, summary, keep_recent) ==
    IF Len(messages) <= keep_recent THEN messages
    ELSE <<Msg("system", <<"[Conversation Summary]", NL, NL>> \o summary)>>
         \o LastN(messages, keep_recent)

\* memory_middleware(state)
MemoryMiddleware(st, outcome) ==
    LET messages == MessagesOf(st)
        c == CompactConversation(messages, KeepRecent, outcome)
        compacted == CompactWithSummary(messages, c.summary, KeepRecent)
    IN IF messages = <<>> THEN st
       ELSE IF ~ShouldCompact(messages) THEN st
       ELSE IF ~c.ok THEN st
       ELSE [st EXCEPT !.keys = @ \cup {"messages", "compaction_metadata"},
                       !.messages = compacted,
                       !.compaction_metadata =
                           [compacted_count |-> Len(messages) - KeepRecent,
                            kept_count |-> KeepRecent,
                            original_count |-> Len(messages),
                            new_count |-> Len(compacted)]]

(***************************************************************************)
(* Git safety: DANGEROUS_PATTERNS as sequences of pattern elements over    *)
(* symbols: a symbol of a set, \s+, .* , and a word between \b boundaries. *)
(***************************************************************************)
PSym(set) == [kind |-> "sym", set |-> set]
PSpaces == [kind |-> "spaces", set |-> {}]
PAny == [kind |-> "any", set |-> {}]
PWord(set) == [kind |-> "word", set |-> set]

\* symbols that end or begin with a non-word character
NonWordSyms == {SP, NL, SL, Q, LB, RB, LS, RS, CM, CL, BS, ".", ". ", "WARNING: "}

\* \b holds at position n of c on the side of neighbour m
Boundary(c, m) == m < 1 \/ m > Len(c) \/ c[m] \in NonWordSyms

\* pat[p..] matches c from position n on
RECURSIVE MatchAt(_, _, _, _)
MatchAt(c, n, pat, p) ==
    IF p > Len(pat) THEN TRUE
    ELSE LET e == pat[p]
         IN IF e.kind = "sym"
            THEN n <= Len(c) /\ c[n] \in e.set /\ MatchAt(c, n + 1, pat, p + 1)
            ELSE IF e.kind = "word"
            THEN /\ n <= Len(c) /\ c[n] \in e.set
                 /\ Boundary(c, n - 1) /\ Boundary(c, n + 1)
                 /\ MatchAt(c, n + 1, pat, p + 1)
            ELSE IF e.kind = "spaces"
            THEN /\ n <= Len(c) /\ IsWS(c[n])
                 /\ (MatchAt(c, n + 1, pat, p + 1) \/ MatchAt(c, n + 1, pat, p))
            ELSE \/ MatchAt(c, n, pat, p + 1)
                 \/ (n <= Len(c) /\ c[n] # NL /\ MatchAt(c, n + 1, pat, p))

\* re.search(pattern, content)
Search(pat, c) == \E n \in 1..(Len(c) + 1) : MatchAt(c, n, pat, 1)

ForceFlags == {"--force", "--force-with-lease"}

CleanFlags == {"-f", "-fd", "-x"}

Desc_force == <<"Force", SP, "push", SP, "detected">>
Desc_reset == <<"Hard", SP, "reset", SP, "detected">>
Desc_clean == <<"Git", SP, "clean", SP, "detected">>
Desc_main == <<"Push", SP, "to", SP, "main", SL, "master", SP, "branch">>

DANGEROUS_PATTERNS ==
    << [pat |-> <<PSym({"git"}), PSpaces, PSym({"push"}), PSpaces, PAny, PSym(ForceFlags)>>,
        desc |-> Desc_force],
       [pat |-> <<PSym({"force"}), PSpaces, PSym({"push"})>>, desc |-> Desc_force],
       [pat |-> <<PSym({"git"}), PSpaces, PSym({"reset"}), PSpaces, PSym({"--hard"})>>,
        desc |-> Desc_reset],
       [pat |-> <<PSym({"git"}), PSpaces, PSym({"clean"}), PSpaces, PSym(CleanFlags)>>,
        desc |-> Desc_clean],
       [pat |-> <<PSym({"git"}), PSpaces, PSym({"push"}), PSpaces, PAny,
                  PWord({"main", "master"})>>, desc |-> Desc_main],
       [pat |-> <<PSym({"push"}), PAny, PWord({"main", "master"})>>, desc |-> Desc_main] >>

\* the patterns, in list order, that the content matches
MatchingPatterns(content) ==
    {n \in 1..Len(DANGEROUS_PATTERNS) : Search(DANGEROUS_PATTERNS[n].pat, Lower(content))}

FirstMatch(content) ==
    CHOOSE n \in MatchingPatterns(content) : \A m \in MatchingPatterns(content) : n <= m

WarningMessage(desc, enforce) ==
    <<"WARNING: ">> \o desc \o <<". ">>
    \o (IF enforce THEN <<"This operation is blocked for safety.">>
        ELSE <<"Please confirm this is intentional.">>)

\* git_safety_middleware that searches every message of the history
GitSafetyMiddleware_AnyMessage(st, enforce) ==
    LET messages == MessagesOf(st)
        hits == {n \in 1..Len(messages) : MatchingPatterns(messages[n].content) # {}}
        content == messages[CHOOSE n \in hits : \A m \in hits : m <= n].content
    IN IF hits = {} THEN st
       ELSE LET warning == Msg("system",
                               WarningMessage(DANGEROUS_PATTERNS[FirstMatch(content)].desc,
                                              enforce))
            IN IF enforce
               THEN [st EXCEPT !.messages = Append(@, warning),
                               !.git_operation_blocked = TRUE,
                               !.keys = @ \cup {"git_operation_blocked"}]
               ELSE [st EXCEPT !.messages = Append(@, warning)]

\* git_safety_middleware(state)
GitSafetyMiddleware(st, enforce) ==
    LET messages == MessagesOf(st)
        content == messages[Len(messages)].content
    IN IF messages = <<>> THEN st
       ELSE IF MatchingPatterns(content) = {} THEN st
       ELSE LET warning == Msg("system",
                               WarningMessage(DANGEROUS_PATTERNS[FirstMatch(content)].desc,
                                              enforce))
            IN IF enforce
               THEN [st EXCEPT !.messages = Append(@, warning),
                               !.git_operation_blocked = TRUE,
                               !.keys = @ \cup {"git_operation_blocked"}]
               ELSE [st EXCEPT !.messages = Append(@, warning)]

(***************************************************************************)
(* Error recovery stage.                                                   *)
(***************************************************************************)
\* the symbols in which "parent directory does not exist" or
\* "no such file or directory" occurs, whatever the case of the letters
NoParentSyms == {"Parent directory does not exist: ", "No such file or directory: "}

\* ... "access denied" or "permission denied"
DeniedSyms == {"Permission denied: ", "Access denied: "}

\* ... "outside allowed directories"
OutsideSyms == {"Path outside allowed directories: "}

HasSym(s, set) == \E n \in 1..Len(s) : s[n] \in set

\* a character of the class [\w/\-\.]
PathSym(c) == c \in {SL, ".", "-"} \/ c \notin NonWordSyms

\* the start of the first match of /[\w/\-\.]+ in s, or 0
PathMatchStart(s) ==
    LET starts == {n \in 1..(Len(s) - 1) : s[n] = SL /\ PathSym(s[n + 1])}
    IN IF starts = {} THEN 0 ELSE CHOOSE n \in starts : \A m \in starts : n <= m

RECURSIVE PathMatchEnd(_, _)
PathMatchEnd(s, n) ==
    IF n + 1 <= Len(s) /\ PathSym(s[n + 1]) THEN PathMatchEnd(s, n + 1) ELSE n

RECURSIVE StripSlashes(_)
StripSlashes(s) ==
    IF s # <<>> /\ s[Len(s)] = SL THEN StripSlashes(SubSeq(s, 1, Len(s) - 1)) ELSE s

\* os.path.dirname(p)
Dirname(p) ==
    LET slashes == {n \in 1..Len(p) : p[n] = SL}
        k == IF slashes = {} THEN 0 ELSE CHOOSE n \in slashes : \A m \in slashes : m <= n
        head == SubSeq(p, 1, k)
    IN IF StripSlashes(head) = <<>> THEN head ELSE StripSlashes(head)

\* the guidance text for an error below the retry ceiling
RecoveryMessage(error, retry_count) ==
    <<"An error occurred: ">> \o error \o <<". ">> \o
    (IF HasSym(error, NoParentSyms)
     THEN IF PathMatchStart(error) # 0
          THEN <<"TIP: The parent directory '">>
               \o Dirname(SubSeq(error, PathMatchStart(error),
                                 PathMatchEnd(error, PathMatchStart(error))))
               \o <<"' doesn't exist. Use create_directory first.">>
          ELSE <<"TIP: Create the parent directory first.">>
     ELSE IF HasSym(error, DeniedSyms) THEN <<"TIP: Check file permissions.">>
     ELSE IF HasSym(error, OutsideSyms) THEN <<"TIP: The path is outside the workspace.">>
     ELSE <<"Attempting recovery (attempt ", ToString(retry_count), SL,
            ToString(MaxRetries), ")...">>)

CeilingMessage(error) ==
    <<"Maximum retry attempts (", ToString(MaxRetries), ") reached. Error: ">>
    \o error \o <<". Please try a different approach or check the error details.">>

\* error_recovery_middleware that reaches the ceiling one call late
ErrorRecoveryMiddleware_Late(st) ==
    IF ~("error" \in st.keys /\ st.error # <<>>) THEN [ok |-> TRUE, st |-> st]
    ELSE LET retry_count == (IF "retry_count" \in st.keys THEN st.retry_count ELSE 0) + 1
             st1 == [st EXCEPT !.retry_count = retry_count, !.keys = @ \cup {"retry_count"}]
             st2 == IF retry_count > MaxRetries
                    THEN [st1 EXCEPT !.max_retries_reached = TRUE,
                                     !.keys = @ \cup {"max_retries_reached"}]
                    ELSE st1
             text == IF retry_count > MaxRetries THEN CeilingMessage(st.error)
                     ELSE RecoveryMessage(st.error, retry_count)
         IN IF "messages" \notin st.keys THEN [ok |-> FALSE, st |-> st2]
            ELSE [ok |-> TRUE,
                  st |-> [st2 EXCEPT !.messages = Append(@, Msg("system", text))]]

\* error_recovery_middleware(state); ok = FALSE when it raises (KeyError)
ErrorRecoveryMiddleware(st) ==
    IF ~("error" \in st.keys /\ st.error # <<>>) THEN [ok |-> TRUE, st |-> st]
    ELSE LET retry_count == (IF "retry_count" \in st.keys THEN st.retry_count ELSE 0) + 1
             st1 == [st EXCEPT !.retry_count = retry_count, !.keys = @ \cup {"retry_count"}]
             st2 == IF retry_count >= MaxRetries
                    THEN [st1 EXCEPT !.max_retries_reached = TRUE,
                                     !.keys = @ \cup {"max_retries_reached"}]
                    ELSE st1
             text == IF retry_count >= MaxRetries THEN CeilingMessage(st.error)
                     ELSE RecoveryMessage(st.error, retry_count)
         IN IF "messages" \notin st.keys THEN [ok |-> FALSE, st |-> st2]
            ELSE [ok |-> TRUE,
                  st |-> [st2 EXCEPT !.messages = Append(@, Msg("system", text))]]

\* what happens when a stage opens its file for appending
WriteOutcomes == {"written", "fails"}

\* _write_structured_log: the lines appended; a failed write is swallowed
WriteStructuredLog(st, write) ==
    IF write = "fails" THEN <<>>
    ELSE <<[message_count |-> Len(MessagesOf(st)), state_keys |-> st.keys]>>

\* logging_middleware without its try/except
LoggingStage_Unguarded(st, log_file, write) ==
    [ok |-> ~(log_file /\ write = "fails"), st |-> st,
     lines |-> IF log_file THEN WriteStructuredLog(st, write) ELSE <<>>]

\* logging_middleware(state) with or without a log file configured;
\* ok = FALSE when it raises
LoggingStage(st, log_file, write) ==
    [ok |-> TRUE, st |-> st,
     lines |-> IF log_file THEN WriteStructuredLog(st, write) ELSE <<>>]

\* the entry audit_middleware builds from the state
AuditEntry(st) ==
    LET messages == MessagesOf(st)
    IN [message_count |-> Len(messages),
        session_id |-> "session_id" \in st.keys,
        last_message_role |-> IF messages = <<>> THEN "" ELSE messages[Len(messages)].role,
        git_operation_blocked |-> "git_operation_blocked" \in st.keys /\ st.git_operation_blocked,
        max_retries_reached |-> "max_retries_reached" \in st.keys /\ st.max_retries_reached,
        memory_compacted |-> "compaction_metadata" \in st.keys,
        state_keys |-> st.keys]

\* _write_audit_entry: the lines appended; a failed write is swallowed
WriteAuditEntry(entry, write) == IF write = "fails" THEN <<>> ELSE <<entry>>

\* audit_middleware(state) with or without an audit file configured
AuditStage(st, audit_file, write) ==
    [ok |-> TRUE, st |-> st,
     lines |-> IF audit_file THEN WriteAuditEntry(AuditEntry(st), write) ELSE <<>>]

\* logging_middleware(state) with a writable log file
LoggingMiddleware(st) == LoggingStage(st, TRUE, "written").st

\* audit_middleware(state) with a writable audit file
AuditMiddleware(st) == AuditStage(st, TRUE, "written").st

\* the stack with the memory stage registered before the logging stage
Middleware_Reordered == <<"memory", "logging", "git_safety", "error_recovery", "audit">>

\* self.middleware as _setup_middleware builds it from the default configuration
Middleware == <<"logging", "memory", "git_safety", "error_recovery", "audit">>

(***************************************************************************)
(* The agent loop.                                                         *)
(***************************************************************************)
VARIABLES
    pc,              \* where _agent_invoke is
    state,           \* the state dict
    mw_i,            \* index of the next middleware stage
    enforce,         \* middleware.git_safety.enforce
    max_iterations,  \* agent.max_iterations
    tools,           \* the fetched capability list (names)
    model_bound,     \* whether the model was bound with the tools
    lc_messages,     \* the message history sent to the model
    iteration,       \* the loop counter
    branch,          \* "structured" or "text": the branch of the current iteration
    tool_calls,      \* the tool calls of the current response
    call_i,          \* index of the tool call being executed
    tool_results,    \* the result lines of the text branch
    llm_calls,       \* number of Model Client calls made
    last_response,   \* the latest Model Client response
    mw_log,          \* the middleware stages run, in order
    llm_at,          \* Len(mw_log) at each Model Client call
    mw_messages,     \* state.messages as the middleware pass left them
    tools_fetch,     \* how the fetch of the tool list ended
    calls_log,       \* the capability invocations, in order
    fn_in,           \* the arguments of a function applied on its own
    fn_out           \* what that function returned

vars == <<pc, state, mw_i, enforce, max_iterations, tools, model_bound, lc_messages,
          iteration, branch, tool_calls, call_i, tool_results, llm_calls, last_response,
          mw_log, llm_at, mw_messages, tools_fetch, calls_log, fn_in, fn_out>>

\* fn_in and fn_out while no function is applied on its own
NoValue == [kind |-> "none"]

LcMsg(type, content, id) == [type |-> type, content |-> content, tool_call_id |-> id]

SystemPrompt == <<"system prompt">>

\* the conversion of state messages to model messages
RECURSIVE Convert(_)
Convert(messages) ==
    IF messages = <<>> THEN <<>>
    ELSE LET m == Head(messages)
         IN (IF m.role = "system" THEN <<LcMsg("system", m.content, "")>>
             ELSE IF m.role = "user" THEN <<LcMsg("human", m.content, "")>>
             ELSE IF m.role = "assistant" THEN <<LcMsg("ai", m.content, "")>>
             ELSE <<>>)
            \o Convert(Tail(messages))

\* the part of _agent_invoke's frame that the steps between two awaits change
Frame ==
    [pc |-> pc, messages |-> state.messages, lc |-> lc_messages, iteration |-> iteration,
     branch |-> branch, calls |-> tool_calls, call_i |-> call_i,
     results |-> tool_results, log |-> calls_log]

\* the content of the assistant message the loop returns
FinalContent(lc) == lc[Len(lc)].content

\* Finalize that also carries the entry before the last one, when there is
\* one, into the state
Finalize_KeepsTwo(f) ==
    [f EXCEPT !.pc = "done",
              !.messages = @ \o (IF Len(f.lc) > 1
                                 THEN <<Msg("assistant", f.lc[Len(f.lc) - 1].content)>>
                                 ELSE <<>>)
                             \o <<Msg("assistant", FinalContent(f.lc))>>]

\* the conversion of the final response back to the state
Finalize(f) ==
    [f EXCEPT !.pc = "done",
              !.messages = Append(@, Msg("assistant", FinalContent(f.lc)))]

\* LoopContinues with an off-by-one bound
LoopContinues_OffByOne(it, max) == it <= max

\* for iteration in range(max_iterations)
LoopContinues(it, max) == it < max

LoopHead(f) ==
    IF LoopContinues(f.iteration, max_iterations) THEN [f EXCEPT !.pc = "call_llm"]
    ELSE Finalize(f)

RECURSIVE JoinLines(_)
JoinLines(lines) ==
    IF lines = <<>> THEN <<>>
    ELSE IF Len(lines) = 1 THEN lines[1]
    ELSE lines[1] \o <<NL>> \o JoinLines(Tail(lines))

ResultsMessage(results) ==
    LcMsg("human", <<"Tool execution results:", NL>> \o JoinLines(results), "")

\* the end of one iteration's tool calls
EndBatch(f) ==
    LoopHead([f EXCEPT !.lc = IF f.branch = "text" /\ f.results # <<>>
                                THEN Append(@, ResultsMessage(f.results)) ELSE @,
                       !.iteration = @ + 1])

\* the call being executed
CurrentCall(f) == f.calls[f.call_i]

\* NextIndex that skips every other call
NextIndex_Skip(i) == i + 2

\* the order in which the for-loop takes the calls of one response
NextIndex(i) == i + 1

\* what happens to an exception raised while a call is executed
ErrorLine(f, e) ==
    IF f.branch = "structured"
    THEN [f EXCEPT !.lc = Append(@, LcMsg("tool", <<"Error executing tool: ">> \o e,
                                          CurrentCall(f).id))]
    ELSE [f EXCEPT !.results = Append(@, <<"Error: ">> \o e)]

\* ResultLine that leaves the tool name out of the text branch's line
ResultLine_Bare(f, text) ==
    IF f.branch = "structured"
    THEN [f EXCEPT !.lc = Append(@, LcMsg("tool", text, CurrentCall(f).id))]
    ELSE [f EXCEPT !.results = Append(@, text)]

\* what happens to the result of a call
ResultLine(f, text) ==
    IF f.branch = "structured"
    THEN [f EXCEPT !.lc = Append(@, LcMsg("tool", text, CurrentCall(f).id))]
    ELSE [f EXCEPT !.results = Append(@, ToStr(CurrentCall(f).name) \o <<": ">> \o text)]

NotFoundText(name) == <<"Error: Tool ">> \o ToStr(name) \o <<" not found">>

\* the index in the tool list of the first capability with this name, or 0
FindTool(name) ==
    LET hits == {n \in 1..Len(tools) : name.t = "str" /\ tools[n] = name.v}
    IN IF hits = {} THEN 0 ELSE CHOOSE n \in hits : \A m \in hits : n <= m

\* the first capability whose name contains create_directory, or 0
FindMkdirTool ==
    LET hits == {n \in 1..Len(tools) : ContainsCreateDirectory(tools[n])}
    IN IF hits = {} THEN 0 ELSE CHOOSE n \in hits : \A m \in hits : n <= m

NoStep == [raise |-> FALSE, err |-> <<>>, mkdir |-> FALSE, path |-> <<>>]

\* _ensure_parent_directory_exists that takes the parent of the resolved path
EnsureParent_Resolved(file_path) ==
    LET parent == Parent(Resolve(PathJoin(Workspace, PathOf(file_path))))
    IN IF PathStr(parent) = <<".">> \/ FindMkdirTool = 0 THEN NoStep
       ELSE [NoStep EXCEPT !.mkdir = TRUE, !.path = PathStr(parent)]

\* _ensure_parent_directory_exists up to its call of create_directory
EnsureParent(file_path) ==
    LET parent == Parent(PathOf(file_path))
        parent_str == StripDotSlash(PathStr(parent))
    IN IF PathStr(parent) = <<".">> \/ FindMkdirTool = 0 THEN NoStep
       ELSE [NoStep EXCEPT !.mkdir = TRUE,
                           !.path = PathStr(Resolve(PathJoin(Workspace, PathOf(parent_str))))]

\* the auto-mkdir step of one call: raises, invokes create_directory, or nothing
AutoMkdir(call) ==
    IF ~Truthy(call.name) THEN NoStep
    ELSE IF call.name.t # "str" THEN [NoStep EXCEPT !.raise = TRUE, !.err = <<"AttributeError">>]
    ELSE IF ~ContainsWriteFile(call.name.v) THEN NoStep
    ELSE IF call.args.t # "obj" THEN [NoStep EXCEPT !.raise = TRUE, !.err = <<"AttributeError">>]
    ELSE LET first == GetOr(call.args, K_path, JNone)
             file_path == IF Truthy(first) THEN first ELSE GetOr(call.args, K_file_path, JNone)
         IN IF ~Truthy(file_path) THEN NoStep
            ELSE IF file_path.t # "str"
                 THEN [NoStep EXCEPT !.raise = TRUE, !.err = <<"TypeError">>]
            ELSE EnsureParent(file_path.v)

\* "path" in tool_args, for a tool_args that is not a number
PathIn(args) ==
    IF args.t = "obj" THEN HasKey(args, K_path)
    ELSE IF args.t = "str" THEN \E n \in 1..Len(args.v) : args.v[n] = "path"
    ELSE \E n \in 1..Len(args.v) : args.v[n].t = "str" /\ args.v[n].v = K_path

\* the path rewriting of the text branch
FixPath(call) ==
    LET same == [raise |-> FALSE, err |-> <<>>, args |-> call.args]
        bad == [raise |-> TRUE, err |-> <<"TypeError">>, args |-> call.args]
    IN IF ~(call.name.t = "str" /\ call.name.v \in PathFixTools) THEN same
       ELSE IF call.args.t = "lit" THEN bad
       ELSE IF ~PathIn(call.args) THEN same
       ELSE IF call.args.t # "obj" THEN bad
       ELSE LET original_path == GetKey(call.args, K_path)
            IN IF original_path.t # "str" THEN bad
               ELSE IF PathOf(original_path.v).abs THEN same
               ELSE [same EXCEPT !.args = SetKey(call.args, K_path,
                                                 JStr(ToWorkspacePath(original_path.v)))]

\* the arguments a capability is invoked with in the given branch
ArgsFor(br, call) ==
    IF br = "text" THEN FixPath(call) ELSE [raise |-> FALSE, err |-> <<>>, args |-> call.args]

LogEntry(kind, tool, args, f) ==
    [kind |-> kind, tool |-> tool, args |-> args, iteration |-> f.iteration,
     call |-> f.call_i, name |-> CurrentCall(f).name, branch |-> f.branch,
     status |-> "started"]

RECURSIVE StepCall(_)

\* the rest of the for-loop after the current call
NextCall(f) ==
    IF NextIndex(f.call_i) \in 1..Len(f.calls)
    THEN StepCall([f EXCEPT !.call_i = NextIndex(@)])
    ELSE EndBatch(f)

\* AfterMkdir that records nothing for a tool it does not find
AfterMkdir_Silent(f) ==
    LET call == CurrentCall(f)
        fix == ArgsFor(f.branch, call)
        n == FindTool(call.name)
    IN IF fix.raise THEN NextCall(ErrorLine(f, fix.err))
       ELSE IF n # 0
            THEN [f EXCEPT !.pc = "await_tool",
                           !.log = Append(@, LogEntry("tool", tools[n], fix.args, f))]
       ELSE NextCall(f)

\* the current call from its tool lookup on
AfterMkdir(f) ==
    LET call == CurrentCall(f)
        fix == ArgsFor(f.branch, call)
        n == FindTool(call.name)
    IN IF fix.raise THEN NextCall(ErrorLine(f, fix.err))
       ELSE IF n # 0
            THEN [f EXCEPT !.pc = "await_tool",
                           !.log = Append(@, LogEntry("tool", tools[n], fix.args, f))]
       ELSE NextCall(ResultLine(f, NotFoundText(call.name)))

\* the current call from its start to its first await
StepCall(f) ==
    LET pre == AutoMkdir(CurrentCall(f))
    IN IF pre.raise THEN NextCall(ErrorLine(f, pre.err))
       ELSE IF pre.mkdir
            THEN [f EXCEPT !.pc = "await_mkdir",
                           !.log = Append(@, LogEntry("mkdir", tools[FindMkdirTool],
                                                      JObj(<<[k |-> K_path,
                                                              val |-> JStr(pre.path)]>>), f))]
       ELSE AfterMkdir(f)

\* the first call of a response
StartBatch(f) == StepCall([f EXCEPT !.call_i = 1, !.results = <<>>])

SetStatus(log, status) == [log EXCEPT ![Len(log)].status = status]

\* the tool calls of a structured response, as the loop reads them
StructuredCalls(tcs) ==
    [n \in 1..Len(tcs) |-> [name |-> JStr(tcs[n].name), args |-> tcs[n].args, id |-> tcs[n].id]]

\* the tool calls of a text response, as the loop reads them
TextCalls(cands) ==
    [n \in 1..Len(cands) |-> [name |-> GetOr(cands[n], K_name, JNone),
                              args |-> GetOr(cands[n], K_arguments, JObj(<<>>)),
                              id |-> ""]]

\* AfterResponse that goes on to the next iteration when no tool call is found
AfterResponse_NoBreak(f, resp) ==
    LET f1 == [f EXCEPT !.lc = Append(@, LcMsg("ai", resp.content, ""))]
    IN IF resp.tool_calls # <<>>
       THEN StartBatch([f1 EXCEPT !.branch = "structured",
                                  !.calls = StructuredCalls(resp.tool_calls)])
       ELSE IF ExtractToolCalls(resp.content) = <<>>
            THEN EndBatch([f1 EXCEPT !.branch = "text", !.calls = <<>>])
       ELSE StartBatch([f1 EXCEPT !.branch = "text",
                                  !.calls = TextCalls(ExtractToolCalls(resp.content))])

\* the frame after a Model Client response, up to the next await
AfterResponse(f, resp) ==
    LET f1 == [f EXCEPT !.lc = Append(@, LcMsg("ai", resp.content, ""))]
    IN IF resp.tool_calls # <<>>
       THEN StartBatch([f1 EXCEPT !.branch = "structured",
                                  !.calls = StructuredCalls(resp.tool_calls)])
       ELSE IF ExtractToolCalls(resp.content) = <<>>
            THEN Finalize([f1 EXCEPT !.branch = "text", !.calls = <<>>])
       ELSE StartBatch([f1 EXCEPT !.branch = "text",
                                  !.calls = TextCalls(ExtractToolCalls(resp.content))])

\* the frame written back to the variables
Commit(f) ==
    /\ pc' = f.pc
    /\ state' = [state EXCEPT !.messages = f.messages,
                              !.keys = IF f.pc = "done" THEN @ \cup {"messages"} ELSE @]
    /\ lc_messages' = f.lc
    /\ iteration' = f.iteration
    /\ branch' = f.branch
    /\ tool_calls' = f.calls
    /\ call_i' = f.call_i
    /\ tool_results' = f.results
    /\ calls_log' = f.log
    /\ UNCHANGED <<fn_in, fn_out>>

(***************************************************************************)
(* Inputs: the states a caller passes, the replies of the Model Client,    *)
(* the capability lists and the outcomes of a capability invocation.       *)
(***************************************************************************)
\* largest agent.max_iterations explored
MaxIterations == 2

Str(syms) == <<Q>> \o syms \o <<Q>>

\* the text tool-call wire format
CallText(name, argkey, args) ==
    <<LB>> \o Str(<<"name">>) \o <<CL, SP>> \o name \o <<CM, SP>>
    \o Str(<<argkey>>) \o <<CL, SP>> \o args \o <<RB>>

PathArgsText(path) == <<LB>> \o Str(<<"path">>) \o <<CL, SP>> \o Str(path) \o <<RB>>

PathArgs(path) == JObj(<<[k |-> K_path, val |-> JStr(path)]>>)

Reply(tcs, content) == [tool_calls |-> tcs, content |-> content]

ToolCall(name, args, id) == [name |-> name, args |-> args, id |-> id]

R_done == Reply(<<>>, <<"Done.">>)

R_empty == Reply(<<>>, <<>>)

R_hello == Reply(<<ToolCall(<<"write_file">>, PathArgs(<<".", SL, "hello.txt">>), "c1")>>, <<>>)

R_two == Reply(<<ToolCall(<<"write_file">>, PathArgs(<<"src", SL, "x.txt">>), "c1"),
                 ToolCall(<<"nosuch">>, JObj(<<>>), "c2"),
                 ToolCall(<<"safe_write_file">>,
                          JObj(<<[k |-> K_file_path, val |-> JStr(<<"src", SL, "y.txt">>)]>>),
                          "c3")>>, <<"working">>)

R_text == Reply(<<>>,
                CallText(Str(<<"write_file">>), "arguments", PathArgsText(<<".", SL, "a.txt">>))
                \o <<NL>> \o
                CallText(Str(<<"read_file">>), "parameters", PathArgsText(<<"..", SL, "b.txt">>)))

R_odd == Reply(<<>>,
               <<LS>> \o CallText(<<"1">>, "arguments", <<LB, RB>>) \o <<CM, SP>>
               \o CallText(Str(<<"safe_write_file">>), "arguments", Str(<<"path">>))
               \o <<CM, SP>>
               \o CallText(Str(<<"edit_file">>), "arguments", PathArgsText(<<"src", SL, "e.txt">>))
               \o <<RS>>)

R_mk == Reply(<<>>, <<"Creating", SP, "it:", NL>> \o
              CallText(Str(<<"write_file">>), "arguments",
                       PathArgsText(<<"src", SL, "lib", SL, "t.txt">>)))

ModelResponses == {R_done, R_empty, R_hello, R_two, R_text, R_odd}

\* the replies that ask for files to be written
WriteResponses == {R_done, R_two, R_text, R_mk}

ToolLists ==
    { <<<<"write_file">>, <<"read_file">>, <<"create_directory">>>>,
      <<<<"read_file">>, <<"write_file">>>> }

\* get_all_tools returns a list, returns none, raises, or there is no MCP client
ToolFetchOutcomes == {"ok", "empty", "raised", "no_client"}

\* a capability returns a value, returns None, or raises
ToolOutcomes == {"ok", "none", "raise"}

U_create == Msg("user", <<"create", SP, "hello.txt">>)

U_push == Msg("user", <<"git", SP, "push", SP, "--force", SP, "origin", SP, "main">>)

History ==
    [n \in 1..(KeepRecent + 1) |->
        IF n % 2 = 1 THEN Msg("user", <<"question", ToString(n)>>)
        ELSE Msg("assistant", <<"answer", ToString(n)>>)]

E_parent == <<"Parent directory does not exist: ", SL, "ws", SL, "src", SL, "x.txt">>

BaseKeys == {"messages", "session_id"}

Scenarios ==
    { [st |-> StateOf(<<U_create>>, BaseKeys, <<>>), enforce |-> FALSE],
      [st |-> StateOf(<<U_push>>, BaseKeys, <<>>), enforce |-> FALSE],
      [st |-> StateOf(<<U_push>>, BaseKeys, <<>>), enforce |-> TRUE],
      [st |-> StateOf(History, BaseKeys, <<>>), enforce |-> FALSE],
      [st |-> StateOf(<<U_create>>, BaseKeys \cup {"error"}, E_parent), enforce |-> FALSE],
      [st |-> StateOf(<<>>, {"session_id"}, <<>>), enforce |-> FALSE],
      [st |-> StateOf(<<>>, {"session_id", "error"}, E_parent), enforce |-> FALSE] }

Init ==
    /\ \E sc \in Scenarios : state = sc.st /\ enforce = sc.enforce
    /\ max_iterations \in 0..MaxIterations
    /\ pc = "middleware"
    /\ mw_i = 1
    /\ tools = <<>>
    /\ model_bound = FALSE
    /\ lc_messages = <<>>
    /\ iteration = 0
    /\ branch = "none"
    /\ tool_calls = <<>>
    /\ call_i = 0
    /\ tool_results = <<>>
    /\ llm_calls = 0
    /\ last_response = [tool_calls |-> <<>>, content |-> <<>>]
    /\ mw_log = <<>>
    /\ llm_at = <<>>
    /\ mw_messages = <<>>
    /\ tools_fetch = "none"
    /\ calls_log = <<>>
    /\ fn_in = NoValue
    /\ fn_out = NoValue

LoopVars == <<tools, model_bound, lc_messages, iteration, branch, tool_calls, call_i,
              tool_results, llm_calls, last_response, llm_at, tools_fetch, calls_log>>

\* the end of one middleware stage: on to the next stage or to the tool fetch
AfterStage(r) ==
    /\ state' = r.st
    /\ mw_log' = Append(mw_log, Middleware[mw_i])
    /\ mw_messages' = MessagesOf(r.st)
    /\ mw_i' = mw_i + 1
    /\ pc' = IF ~r.ok THEN "raised"
             ELSE IF mw_i = Len(Middleware) THEN "get_tools" ELSE "middleware"
    /\ UNCHANGED <<enforce, max_iterations, fn_in, fn_out>>
    /\ UNCHANGED LoopVars

AtStage(name) == pc = "middleware" /\ mw_i <= Len(Middleware) /\ Middleware[mw_i] = name

StageLogging == AtStage("logging") /\ AfterStage([ok |-> TRUE, st |-> LoggingMiddleware(state)])

StageMemory ==
    /\ AtStage("memory")
    /\ \E outcome \in SummarizerOutcomes :
           AfterStage([ok |-> TRUE, st |-> MemoryMiddleware(state, outcome)])

StageGitSafety ==
    AtStage("git_safety") /\ AfterStage([ok |-> TRUE, st |-> GitSafetyMiddleware(state, enforce)])

StageErrorRecovery == AtStage("error_recovery") /\ AfterStage(ErrorRecoveryMiddleware(state))

StageAudit == AtStage("audit") /\ AfterStage([ok |-> TRUE, st |-> AuditMiddleware(state)])

\* _get_tools: the list the loop works with after the given outcome of the fetch
FetchedTools(outcome, list) == IF outcome = "ok" THEN list ELSE <<>>

\* AfterFetch that lets a failed fetch leave _agent_invoke
AfterFetch_Aborts(outcome, f) ==
    IF outcome = "raised" THEN [f EXCEPT !.pc = "raised"] ELSE LoopHead(f)

\* where _agent_invoke goes after the fetch of the tool list
AfterFetch(outcome, f) == LoopHead(f)

\* the message conversion, the tool fetch and the binding, up to the first model call
GetTools ==
    /\ pc = "get_tools"
    /\ \E outcome \in ToolFetchOutcomes, list \in ToolLists :
          /\ outcome # "ok" => list = CHOOSE l \in ToolLists : TRUE
          /\ tools' = FetchedTools(outcome, list)
          /\ tools_fetch' = outcome
          /\ model_bound' = (tools' # <<>>)
          /\ Commit(AfterFetch(outcome,
                               [Frame EXCEPT !.lc = <<LcMsg("system", SystemPrompt, "")>>
                                                    \o Convert(MessagesOf(state))]))
    /\ UNCHANGED <<mw_i, enforce, max_iterations, llm_calls, last_response, mw_log, llm_at,
                   mw_messages>>

\* one Model Client call that returns
CallLLM ==
    /\ pc = "call_llm"
    /\ \E resp \in ModelResponses :
          /\ last_response' = resp
          /\ Commit(AfterResponse(Frame, resp))
    /\ llm_calls' = llm_calls + 1
    /\ llm_at' = Append(llm_at, Len(mw_log))
    /\ UNCHANGED <<mw_i, enforce, max_iterations, tools, model_bound, mw_log, mw_messages,
                   tools_fetch>>

\* one Model Client call that raises: the error leaves _agent_invoke
LLMRaises ==
    /\ pc = "call_llm"
    /\ pc' = "raised"
    /\ llm_calls' = llm_calls + 1
    /\ llm_at' = Append(llm_at, Len(mw_log))
    /\ UNCHANGED <<state, mw_i, enforce, max_iterations, tools, model_bound, lc_messages,
                   iteration, branch, tool_calls, call_i, tool_results, last_response,
                   mw_log, mw_messages, tools_fetch, calls_log, fn_in, fn_out>>

\* create_directory returns or raises; either way the call goes on
MkdirReturn ==
    /\ pc = "await_mkdir"
    /\ \E status \in {"returned", "raised"} :
          Commit(AfterMkdir([Frame EXCEPT !.log = SetStatus(@, status)]))
    /\ UNCHANGED <<mw_i, enforce, max_iterations, tools, model_bound, llm_calls,
                   last_response, mw_log, llm_at, mw_messages, tools_fetch>>

\* AfterTool that lets the exception of a capability leave _agent_invoke
AfterTool_Propagates(f, outcome) ==
    IF outcome = "raise" THEN [f EXCEPT !.pc = "raised", !.log = SetStatus(@, "raised")]
    ELSE IF outcome = "none"
         THEN NextCall(ResultLine([f EXCEPT !.log = SetStatus(@, "returned")],
                                  NotFoundText(CurrentCall(f).name)))
    ELSE NextCall(ResultLine([f EXCEPT !.log = SetStatus(@, "returned")], <<"ok">>))

\* the frame after the invoked capability ended with the given outcome
AfterTool(f, outcome) ==
    IF outcome = "raise" THEN NextCall(ErrorLine([f EXCEPT !.log = SetStatus(@, "raised")],
                                                 <<"boom">>))
    ELSE IF outcome = "none"
         THEN NextCall(ResultLine([f EXCEPT !.log = SetStatus(@, "returned")],
                                  NotFoundText(CurrentCall(f).name)))
    ELSE NextCall(ResultLine([f EXCEPT !.log = SetStatus(@, "returned")], <<"ok">>))

ToolReturn ==
    /\ pc = "await_tool"
    /\ \E outcome \in ToolOutcomes : Commit(AfterTool(Frame, outcome))
    /\ UNCHANGED <<mw_i, enforce, max_iterations, tools, model_bound, llm_calls,
                   last_response, mw_log, llm_at, mw_messages, tools_fetch>>

Next ==
    \/ StageLogging
    \/ StageMemory
    \/ StageGitSafety
    \/ StageErrorRecovery
    \/ StageAudit
    \/ GetTools
    \/ CallLLM
    \/ LLMRaises
    \/ MkdirReturn
    \/ ToolReturn

Spec == Init /\ [][Next]_vars

\* one Model Client call that returns a reply asking for writes
CallLLMWrite ==
    /\ pc = "call_llm"
    /\ \E resp \in WriteResponses :
          /\ last_response' = resp
          /\ Commit(AfterResponse(Frame, resp))
    /\ llm_calls' = llm_calls + 1
    /\ llm_at' = Append(llm_at, Len(mw_log))
    /\ UNCHANGED <<mw_i, enforce, max_iterations, tools, model_bound, mw_log, mw_messages,
                   tools_fetch>>

NextWrites ==
    \/ StageLogging
    \/ StageMemory
    \/ StageGitSafety
    \/ StageErrorRecovery
    \/ StageAudit
    \/ GetTools
    \/ CallLLMWrite
    \/ LLMRaises
    \/ MkdirReturn
    \/ ToolReturn

\* the agent loop on the replies that ask for writes
SpecWrites == Init /\ [][NextWrites]_vars

(***************************************************************************)
(* Properties of the agent loop.                                           *)
(***************************************************************************)
Last(seq) == seq[Len(seq)]

\* the result texts of the calls of the current response handled so far
RECURSIVE TrailingToolMessages(_)
TrailingToolMessages(lc) ==
    IF lc = <<>> \/ Last(lc).type # "tool" THEN <<>>
    ELSE Append(TrailingToolMessages(SubSeq(lc, 1, Len(lc) - 1)), Last(lc).content)

BatchResults ==
    IF branch = "text" THEN tool_results ELSE TrailingToolMessages(lc_messages)

InLoop == pc \in {"call_llm", "await_mkdir", "await_tool", "done"}

\* what the text extraction finds in each reply the model can give
Extracted ==
    [r \in ModelResponses \cup {[tool_calls |-> <<>>, content |-> <<>>]} |->
        ExtractToolCalls(r.content)]

\* the latest response asked for at least one tool call
AskedForTools ==
    last_response.tool_calls # <<>> \/ Extracted[last_response] # <<>>

\* C1: one invocation of the agent loop makes at most max_iterations Model
\* Client calls: the model is only ever awaited while fewer than max_iterations
\* calls were made, and once the max_iterations-th response has been handled
\* the loop has returned.
C1_BoundedModelCalls ==
    /\ llm_calls <= max_iterations
    /\ pc = "call_llm" => llm_calls < max_iterations
    /\ (llm_calls = max_iterations /\ pc \in {"call_llm", "done"}) => pc = "done"
    /\ pc \in {"await_mkdir", "await_tool"} => llm_calls = iteration + 1

C1_Witness == pc = "done" /\ llm_calls = max_iterations /\ max_iterations = MaxIterations

\* C2: when the loop returns, state.messages is the list the middleware pass
\* left followed by exactly one new entry, of role assistant; the responses and
\* tool results produced inside the loop are not in state.messages.
C2_OneAssistantMessage ==
    pc = "done" =>
        /\ Len(state.messages) = Len(mw_messages) + 1
        /\ SubSeq(state.messages, 1, Len(mw_messages)) = mw_messages
        /\ Last(state.messages).role = "assistant"

C2_Witness ==
    /\ pc = "done" /\ llm_calls >= 2 /\ calls_log # <<>>
    /\ Len(mw_messages) = 2
    /\ Len(lc_messages) > Len(state.messages) + 2

\* C3: when the latest response carries no structured tool calls and the
\* extraction finds no candidate, the loop has ended in that iteration: no
\* capability was invoked in it, the model is not awaited again, and the
\* appended assistant message has that response's content.
C3_EmptyExtractionEnds ==
    (llm_calls > 0 /\ ~AskedForTools /\ pc # "raised") =>
        /\ pc = "done"
        /\ Last(state.messages) = Msg("assistant", last_response.content)
        /\ \A n \in 1..Len(calls_log) : calls_log[n].iteration < llm_calls - 1
        /\ iteration = llm_calls - 1

C3_Witness ==
    /\ pc = "done" /\ last_response = R_done /\ llm_calls = 2
    /\ llm_calls < max_iterations + 1 /\ calls_log # <<>>

\* C4: when the loop ends because max_iterations was reached (the last
\* response asked for tools), the appended assistant message has the content
\* of the last Model Client response.
C4_LastResponseIsAnswer ==
    (pc = "done" /\ llm_calls > 0 /\ llm_calls = max_iterations /\ AskedForTools) =>
        Last(state.messages).content = last_response.content

IsRelative(v) == v.t = "str" /\ ~PathOf(v.v).abs

\* C6: in the structured branch a path-rewritten tool (write_file, read_file,
\* read_text_file, edit_file) called with a relative path is invoked with an
\* absolute path; the capability never receives the relative path.
C6_StructuredPathsAbsolute ==
    \A n \in 1..Len(calls_log) :
        (/\ calls_log[n].kind = "tool"
         /\ calls_log[n].branch = "structured"
         /\ calls_log[n].tool \in PathFixTools
         /\ HasKey(calls_log[n].args, K_path))
        => ~IsRelative(GetKey(calls_log[n].args, K_path))

\* entry a of the log belongs to an earlier step of the loop than entry b
Before(a, b) ==
    \/ a.iteration < b.iteration
    \/ a.iteration = b.iteration /\ a.call < b.call
    \/ a.iteration = b.iteration /\ a.call = b.call /\ a.kind = "mkdir" /\ b.kind = "tool"

\* C7: the tool calls of one response are executed one at a time in the order
\* the model emitted them: an invocation (auto-mkdir included) starts only
\* after every earlier one has returned or failed, the invocations follow the
\* order of the calls, and every call of the response is handled.
C7_SequentialInOrder ==
    /\ \A n \in 1..(Len(calls_log) - 1) : calls_log[n].status # "started"
    /\ \A n \in 1..(Len(calls_log) - 1) : Before(calls_log[n], calls_log[n + 1])
    /\ pc \in {"await_mkdir", "await_tool"} =>
           /\ Last(calls_log).status = "started"
           /\ Last(calls_log).call = call_i /\ Last(calls_log).iteration = iteration
           /\ Last(calls_log).name = tool_calls[call_i].name
           /\ Len(BatchResults) = call_i - 1
    /\ (pc \in {"call_llm", "done"} /\ llm_calls > 0 /\ AskedForTools) =>
           /\ call_i = Len(tool_calls)
           /\ Len(BatchResults) = Len(tool_calls)
    /\ (llm_calls > 0 /\ InLoop /\ last_response.tool_calls # <<>>) =>
           /\ Len(tool_calls) = Len(last_response.tool_calls)
           /\ \A k \in 1..Len(tool_calls) :
                  tool_calls[k].name = JStr(last_response.tool_calls[k].name)
    /\ (llm_calls > 0 /\ InLoop /\ last_response.tool_calls = <<>>) =>
           tool_calls = TextCalls(Extracted[last_response])

C7_Witness ==
    /\ pc = "done"
    /\ \E m, n \in 1..Len(calls_log) :
           /\ m + 1 < n
           /\ calls_log[m].kind = "mkdir" /\ calls_log[m + 1].kind = "tool"
           /\ calls_log[m].call = calls_log[m + 1].call
           /\ calls_log[n].iteration = calls_log[m].iteration
           /\ calls_log[n].call > calls_log[m].call
    /\ \E n \in 1..(Len(calls_log) - 1) :
           /\ calls_log[n].branch = "text" /\ calls_log[n + 1].branch = "text"
           /\ calls_log[n].tool = <<"write_file">> /\ calls_log[n + 1].tool = <<"read_file">>

\* the step in which an invoked capability raised
Raised == /\ pc \in {"await_mkdir", "await_tool"}
          /\ Len(calls_log') >= Len(calls_log)
          /\ calls_log'[Len(calls_log)].status = "raised"

\* C8: an exception raised by a tool invocation never leaves the agent loop:
\* it becomes an error-result entry, the remaining calls of the response are
\* still executed and the loop goes on to the next iteration.
C8_ToolErrorsAbsorbed ==
    [][Raised =>
        /\ pc' \in {"await_mkdir", "await_tool", "call_llm", "done"}
        /\ (pc = "await_tool" /\ branch = "structured") =>
               lc_messages'[Len(lc_messages) + 1] =
                   LcMsg("tool", <<"Error executing tool: ", "boom">>, tool_calls[call_i].id)
        /\ (pc = "await_tool" /\ branch = "text") =>
               tool_results'[Len(tool_results) + 1] = <<"Error: ", "boom">>
        /\ pc = "await_mkdir" =>
               \/ pc' = "await_tool" /\ call_i' = call_i
               \/ FindTool(tool_calls[call_i].name) = 0
               \/ ArgsFor(branch, tool_calls[call_i]).raise
        /\ iteration' = iteration =>
               /\ pc' \in {"await_mkdir", "await_tool"}
               /\ call_i' > call_i \/ (pc = "await_mkdir" /\ call_i' = call_i)
        /\ iteration' # iteration =>
               /\ iteration' = iteration + 1
               /\ call_i' = Len(tool_calls)
               /\ branch = "text" => /\ Len(tool_results') = Len(tool_calls)
                                     /\ Last(lc_messages') = ResultsMessage(tool_results')
               /\ branch = "structured" =>
                      Len(TrailingToolMessages(lc_messages')) = Len(tool_calls)
               /\ pc' = IF iteration + 1 < max_iterations THEN "call_llm" ELSE "done"
    ]_vars

C8_Witness ==
    /\ pc = "done"
    /\ \E m, n \in 1..Len(calls_log) :
           /\ m < n
           /\ calls_log[m].kind = "tool" /\ calls_log[m].status = "raised"
           /\ calls_log[n].iteration = calls_log[m].iteration
           /\ calls_log[n].call > calls_log[m].call
    /\ \E m, n \in 1..Len(calls_log) :
           /\ calls_log[m].kind = "tool" /\ calls_log[m].status = "raised"
           /\ calls_log[n].iteration > calls_log[m].iteration

\* the text reported for a name that is no capability's name
NotFoundLine(br, name) ==
    (IF br = "text" THEN ToStr(name) \o <<": ">> ELSE <<>>)
    \o <<"Error: Tool ">> \o ToStr(name) \o <<" not found">>

\* C9 as stated: a tool call whose name is the name of no fetched capability
\* invokes no capability and yields "Error: Tool {name} not found".
C9_UnknownToolInvokesNothing ==
    /\ \A n \in 1..Len(calls_log) : FindTool(calls_log[n].name) # 0
    /\ (InLoop /\ llm_calls > 0) =>
           \A k \in 1..Len(BatchResults) :
               (k <= Len(tool_calls) /\ FindTool(tool_calls[k].name) = 0)
               => BatchResults[k] = NotFoundLine(branch, tool_calls[k].name)

\* C9 amended: a tool call whose name is the name of no fetched capability is
\* never invoked by lookup; the only capability it can cause to be invoked is
\* create_directory in its auto-mkdir step.  Unless its auto-mkdir or
\* path-rewriting step raises, its result is "Error: Tool {name} not found"
\* (after "{name}: " in the text branch).  The loop is not aborted: every call
\* of the response is handled and the loop ends only at max_iterations.
C9_UnknownToolReported ==
    /\ \A n \in 1..Len(calls_log) :
           FindTool(calls_log[n].name) = 0 =>
               /\ calls_log[n].kind = "mkdir"
               /\ ContainsCreateDirectory(calls_log[n].tool)
               /\ ContainsWriteFile(calls_log[n].name.v)
    /\ (InLoop /\ llm_calls > 0) =>
           \A k \in 1..Len(BatchResults) :
               (/\ k <= Len(tool_calls)
                /\ FindTool(tool_calls[k].name) = 0
                /\ ~AutoMkdir(tool_calls[k]).raise
                /\ ~ArgsFor(branch, tool_calls[k]).raise)
               => BatchResults[k] = NotFoundLine(branch, tool_calls[k].name)
    /\ (pc \in {"call_llm", "done"} /\ llm_calls > 0 /\ AskedForTools) =>
           Len(BatchResults) = Len(tool_calls)
    /\ (pc = "done" /\ AskedForTools) => iteration = max_iterations

C9_Witness ==
    /\ pc = "done" /\ llm_calls = 2
    /\ \E m, n \in 1..Len(calls_log) :
           /\ FindTool(calls_log[m].name) = 0
           /\ calls_log[m].iteration = 0 /\ calls_log[n].iteration = 1
    /\ \E k \in 1..(Len(tool_calls) - 1) :
           /\ FindTool(tool_calls[k].name) = 0
           /\ BatchResults[k] = NotFoundLine(branch, tool_calls[k].name)

\* C10 as stated: a failure to obtain the tool list is raised out of the loop
\* and no Model Client call is made.
C10_FetchFailureAborts ==
    tools_fetch = "raised" => (llm_calls = 0 /\ pc = "raised")

\* C10 amended: a failure to obtain the tool list is caught in _get_tools: the
\* loop goes on with an empty tool list and an unbound model, nothing is raised
\* on that account, and the Model Client is called as for any other request.
C10_FetchFailureAbsorbed ==
    tools_fetch = "raised" =>
        /\ tools = <<>> /\ ~model_bound /\ calls_log = <<>>
        /\ pc = "raised" => llm_calls > 0
        /\ llm_calls = 0 => pc = (IF max_iterations > 0 THEN "call_llm" ELSE "done")

C10_Witness == tools_fetch = "raised" /\ llm_calls = 2 /\ pc = "done"

\* the path string names the workspace root or a place below it
InsideWorkspace(s) ==
    LET p == Resolve(PathOf(s))
        root == Workspace.segs
    IN /\ PathOf(s).abs
       /\ Len(p.segs) >= Len(root)
       /\ SubSeq(p.segs, 1, Len(root)) = root

\* C11: whenever the text branch invokes a path-rewritten tool for a call whose
\* path argument is relative (with or without "./", with or without ".."
\* segments), the path handed to the tool lies inside the workspace tree.
C11_ResolvedPathInsideWorkspace ==
    (pc = "await_tool" /\ branch = "text") =>
        LET call == tool_calls[call_i]
        IN (/\ call.name.t = "str" /\ call.name.v \in PathFixTools
            /\ call.args.t = "obj" /\ HasKey(call.args, K_path)
            /\ IsRelative(GetKey(call.args, K_path)))
           => LET handed == GetKey(Last(calls_log).args, K_path)
              IN handed.t = "str" /\ InsideWorkspace(handed.v)

\* every entry of old is in new, unmodified and in the same relative order
RECURSIVE Preserved(_, _)
Preserved(old, new) ==
    IF old = <<>> THEN TRUE
    ELSE IF new = <<>> THEN FALSE
    ELSE IF Head(old) = Head(new) THEN Preserved(Tail(old), Tail(new))
    ELSE Preserved(old, Tail(new))

\* new is old with entries appended
Extends(old, new) == Len(new) >= Len(old) /\ SubSeq(new, 1, Len(old)) = old

\* C12 as stated: no step of an invocation, middleware stages included,
\* removes, modifies or reorders an entry of state.messages.
C12_HistoryAppendOnly ==
    [][Preserved(state.messages, state'.messages)]_vars

\* C12 amended: state.messages is append-only except in the memory stage when
\* it compacts (estimate above the threshold, more than keep_recent entries,
\* summary obtained): that step replaces all entries but the last keep_recent
\* by one system summary message and keeps those last entries unmodified and
\* in order.  Every other step only appends.
C12_AppendOnlyExceptCompaction ==
    [][IF /\ AtStage("memory")
          /\ ShouldCompact(MessagesOf(state))
          /\ Len(MessagesOf(state)) > KeepRecent
          /\ state'.messages # state.messages
       THEN /\ Len(state'.messages) = KeepRecent + 1
            /\ state'.messages[1].role = "system"
            /\ \A k \in 1..KeepRecent :
                   state'.messages[k + 1] = state.messages[Len(state.messages) - KeepRecent + k]
       ELSE Extends(state.messages, state'.messages)
    ]_vars

C12_Witness ==
    /\ pc = "done"
    /\ "compaction_metadata" \in state.keys
    /\ Len(state.messages) = KeepRecent + 2
    /\ state.messages[1].role = "system"
    /\ state.messages[2] = History[2]

(***************************************************************************)
(* Functions applied on their own: the variables of the loop stay as they  *)
(* are before an invocation, fn_in holds the arguments and fn_out the      *)
(* result.                                                                 *)
(***************************************************************************)
LoopState == <<state, mw_i, enforce, max_iterations, mw_log, mw_messages>>

\* no invocation of the loop under way, the function at `start`
Standalone(start) ==
    /\ pc = start
    /\ state = StateOf(<<>>, {}, <<>>)
    /\ enforce = FALSE
    /\ max_iterations = 0
    /\ mw_i = 1
    /\ tools = <<>>
    /\ model_bound = FALSE
    /\ lc_messages = <<>>
    /\ iteration = 0
    /\ branch = "none"
    /\ tool_calls = <<>>
    /\ call_i = 0
    /\ tool_results = <<>>
    /\ llm_calls = 0
    /\ last_response = [tool_calls |-> <<>>, content |-> <<>>]
    /\ mw_log = <<>>
    /\ llm_at = <<>>
    /\ mw_messages = <<>>
    /\ tools_fetch = "none"
    /\ calls_log = <<>>

\* the sequences over S of length at most n
SeqsUpTo(S, n) == UNION {[1..k -> S] : k \in 0..n}

(***************************************************************************)
(* The text extraction applied to serialized tool calls.                   *)
(***************************************************************************)
\* the escapes json.dumps writes inside a string
RECURSIVE EscapeStr(_)
EscapeStr(s) ==
    IF s = <<>> THEN <<>>
    ELSE (IF Head(s) \in {Q, BS} THEN <<BS, Head(s)>>
          ELSE IF Head(s) = NL THEN <<BS, "n">>
          ELSE <<Head(s)>>) \o EscapeStr(Tail(s))

\* json.dumps(x) with the given text after "," and ":" (" " by default)
RECURSIVE Dumps(_, _)
RECURSIVE DumpsItems(_, _)
RECURSIVE DumpsMembers(_, _)
Dumps(x, sep) ==
    IF x.t = "str" THEN Str(EscapeStr(x.v))
    ELSE IF x.t = "lit" THEN x.v
    ELSE IF x.t = "arr" THEN <<LS>> \o DumpsItems(x.v, sep) \o <<RS>>
    ELSE <<LB>> \o DumpsMembers(x.v, sep) \o <<RB>>

DumpsItems(xs, sep) ==
    IF xs = <<>> THEN <<>>
    ELSE Dumps(Head(xs), sep)
         \o (IF Len(xs) > 1 THEN <<CM>> \o sep ELSE <<>>)
         \o DumpsItems(Tail(xs), sep)

DumpsMembers(ps, sep) ==
    IF ps = <<>> THEN <<>>
    ELSE Str(EscapeStr(Head(ps).k)) \o <<CL>> \o sep \o Dumps(Head(ps).val, sep)
         \o (IF Len(ps) > 1 THEN <<CM>> \o sep ELSE <<>>)
         \o DumpsMembers(Tail(ps), sep)

Separators == {<<>>, <<SP>>}

\* longest serialized array explored
MaxArray == 2

\* longest string value with braces, quotes and backslashes explored
MaxStr == 2

Pair(key, val) == [k |-> key, val |-> val]

O_args ==
    JObj(<<Pair(K_name, JStr(<<"write_file">>)),
           Pair(K_arguments, JObj(<<Pair(K_path, JStr(<<"a.txt">>))>>))>>)

O_params ==
    JObj(<<Pair(K_name, JStr(<<"read_file">>)),
           Pair(K_parameters, JObj(<<Pair(K_path, JStr(<<"b.txt">>))>>))>>)

O_both ==
    JObj(<<Pair(K_parameters, JObj(<<>>)),
           Pair(K_name, JStr(<<"edit_file">>)),
           Pair(K_arguments, JObj(<<Pair(K_path, JStr(<<"c.txt">>))>>))>>)

O_odd == JObj(<<Pair(K_arguments, JStr(<<"x">>)), Pair(K_name, JLit("null"))>>)

O_nested ==
    JObj(<<Pair(K_name, JStr(<<"run">>)),
           Pair(K_parameters, JObj(<<Pair(K_name, JStr(<<"inner">>)),
                                     Pair(K_arguments, JObj(<<>>))>>))>>)

\* objects with a name key and an arguments or parameters key
ObjPool == {O_args, O_params, O_both, O_odd, O_nested}

ExtractInput(kind, objs, text, from, to) ==
    [kind |-> kind, objs |-> objs, text |-> text, from |-> from, to |-> to]

\* a list of well-formed objects serialized as one JSON array
ArrayInputs ==
    {ExtractInput("array", objs, Dumps(JArr(objs), sep), 0, 0) :
        objs \in SeqsUpTo(ObjPool, MaxArray), sep \in Separators}

\* the characters a string value is made of
StrSyms == {LB, RB, Q, BS, "x"}

O_content(content) ==
    JObj(<<Pair(K_name, JStr(<<"write_file">>)),
           Pair(K_arguments, JObj(<<Pair(K_path, JStr(<<"a.txt">>)),
                                    Pair(<<"content">>, JStr(content))>>))>>)

Prefixes == {<<"Calling", SP>>, <<"say", SP, Q, "hi", SP>>}

Suffixes == {<<>>, <<SP, "done">>}

\* one tool-call object between prose; from..to is where the object is
EmbeddedInputs ==
    {ExtractInput("embedded", <<O_content(content)>>,
                  prefix \o Dumps(O_content(content), <<SP>>) \o suffix,
                  Len(prefix) + 1,
                  Len(prefix) + Len(Dumps(O_content(content), <<SP>>))) :
        content \in SeqsUpTo(StrSyms, MaxStr), prefix \in Prefixes, suffix \in Suffixes}

\* values that are JSON as a whole and are not a list of well-formed objects
WholeValues ==
    { JArr(<<JArr(<<O_args>>)>>),
      JObj(<<Pair(<<"tool">>, O_args)>>),
      JArr(<<O_args, JArr(<<O_params>>)>>),
      JArr(<<JLit("1"), O_params>>),
      JArr(<<JObj(<<Pair(K_name, JStr(<<"read_file">>))>>)>>),
      JObj(<<Pair(K_name, JStr(<<"read_file">>))>>),
      JObj(<<Pair(<<"result">>, JObj(<<Pair(<<"call">>, O_params)>>))>>),
      JStr(<<"hello">>), JLit("1"), JArr(<<>>), JObj(<<>>), O_args, O_nested }

WholeInputs ==
    {ExtractInput("whole", <<val>>, pad \o Dumps(val, sep) \o pad, 0, 0) :
        val \in WholeValues, sep \in Separators, pad \in {<<>>, <<NL>>}}

ExtractInputs == ArrayInputs \cup EmbeddedInputs \cup WholeInputs

InitExtract ==
    /\ Standalone("extract")
    /\ fn_in \in ExtractInputs
    /\ fn_out = NoValue

\* the extraction of the text branch, from the reply content to tool_calls
Extract ==
    /\ pc = "extract"
    /\ pc' = "extracted"
    /\ fn_out' = [kind |-> "tool_calls",
                  scanned |-> RunsStrategy2(fn_in.text),
                  calls |-> ExtractToolCalls(fn_in.text)]
    /\ UNCHANGED fn_in
    /\ UNCHANGED LoopState
    /\ UNCHANGED LoopVars

NextExtract == Extract

SpecExtract == InitExtract /\ [][NextExtract]_vars

\* every key of obj is in call with the value it has in obj
KeepsKeys(obj, call) ==
    \A n \in 1..Len(obj.v) :
        HasKey(call, obj.v[n].k) /\ GetKey(call, obj.v[n].k) = GetKey(obj, obj.v[n].k)

\* C13: for a list of N objects with a name key and an arguments or
\* parameters key, serialized as one JSON array that is the whole text, the
\* extraction returns N candidates in array order, each the object it came
\* from with an arguments key, copied from parameters when it was absent.
C13_ArrayRoundTrip ==
    (pc = "extracted" /\ fn_in.kind = "array") =>
        /\ Len(fn_out.calls) = Len(fn_in.objs)
        /\ \A k \in 1..Len(fn_in.objs) :
               LET obj == fn_in.objs[k]
                   call == fn_out.calls[k]
               IN /\ call.t = "obj"
                  /\ KeepsKeys(obj, call)
                  /\ HasKey(call, K_arguments)
                  /\ GetKey(call, K_arguments) =
                         (IF HasKey(obj, K_arguments) THEN GetKey(obj, K_arguments)
                          ELSE GetKey(obj, K_parameters))
                  /\ \A n \in 1..Len(call.v) :
                         call.v[n].k = K_arguments \/ HasKey(obj, call.v[n].k)

C13_Witness ==
    /\ pc = "extracted" /\ fn_in.kind = "array"
    /\ Len(fn_in.objs) = MaxArray /\ Len(fn_out.calls) = MaxArray
    /\ ~HasKey(fn_in.objs[1], K_arguments)
    /\ HasKey(fn_in.objs[MaxArray], K_arguments)
    /\ fn_in.objs[1] # fn_in.objs[MaxArray]

\* C14: for a tool-call object embedded in text whose string value contains
\* "{", "}", backslashes or escaped quotes, the scan that starts at the
\* object's opening brace ends at its own closing brace, and the object is
\* returned as the candidate.
C14_ScanFindsOuterBrace ==
    (pc = "extracted" /\ fn_in.kind = "embedded") =>
        /\ fn_in.text[fn_in.from] = LB /\ fn_in.text[fn_in.to] = RB
        /\ MatchClose(fn_in.text, fn_in.from, 0, FALSE, FALSE) = fn_in.to
        /\ fn_out.scanned
        /\ fn_out.calls = fn_in.objs

C14_Witness ==
    /\ pc = "extracted" /\ fn_in.kind = "embedded"
    /\ fn_out.calls = <<O_content(<<RB, Q>>)>>
    /\ fn_in.to < Len(fn_in.text)

\* the candidates strategy 1 selects from a decoded value
Selected(val) == IF val.t = "arr" THEN AcceptedAll(val.v) ELSE Accepted(val)

\* C15 as stated: strategy 2 is run only when the whole trimmed text is not
\* JSON; whenever the whole text is JSON the candidates are those strategy 1
\* selects, even when it selects none.
C15_ScanOnlyOnParseFailure ==
    (pc = "extracted" /\ fn_in.kind \in {"array", "whole"}) =>
        /\ ~fn_out.scanned
        /\ fn_out.calls = Selected(IF fn_in.kind = "array" THEN JArr(fn_in.objs)
                                   ELSE fn_in.objs[1])

\* C15 amended: strategy 2 is run exactly when strategy 1 yields no candidate,
\* be it because the whole text is not JSON or because it is JSON from which
\* strategy 1 selects nothing; then the candidates are those of the scan.
\* When strategy 1 selects at least one candidate, the candidates are exactly
\* those it selects.
C15_ScanWhenNothingSelected ==
    /\ (pc = "extracted" /\ fn_in.kind \in {"array", "whole"}) =>
           LET val == IF fn_in.kind = "array" THEN JArr(fn_in.objs) ELSE fn_in.objs[1]
           IN /\ fn_out.scanned <=> (Selected(val) = <<>>)
              /\ ~fn_out.scanned => fn_out.calls = Selected(val)
              /\ fn_out.scanned => fn_out.calls = Scan(fn_in.text, 1)
    /\ (pc = "extracted" /\ fn_in.kind = "embedded") => fn_out.scanned

C15_Witness ==
    /\ pc = "extracted" /\ fn_in.kind = "whole"
    /\ fn_in.objs = <<JArr(<<JArr(<<O_args>>)>>)>>
    /\ fn_out.scanned
    /\ fn_out.calls = <<O_args>>

(***************************************************************************)
(* The memory compactor applied on its own.                                *)
(***************************************************************************)
\* longest message list explored
MaxMsgs == 3

\* largest keep_recent explored
MaxKeep == 2

MsgPool == {Msg("user", <<"q">>), Msg("assistant", <<"a">>), Msg("system", <<"s">>)}

\* a content of n characters
Chars(n) == [k \in 1..n |-> "x"]

CompactorInput(kind, messages, keep_recent, summary, outcome, chars) ==
    [kind |-> kind, messages |-> messages, keep_recent |-> keep_recent,
     summary |-> summary, outcome |-> outcome, chars |-> chars]

\* message lists of every total length around four times the threshold, in
\* one message or split over two
ShouldCompactInputs ==
    {CompactorInput("should_compact",
                    IF split = 0 THEN <<Msg("user", Chars(n))>>
                    ELSE <<Msg("user", Chars(n \div 2)), Msg("assistant", Chars(n - n \div 2))>>,
                    0, <<>>, "summary", n) :
        n \in 0..(4 * Threshold + 5), split \in {0, 1}}

CompactWithSummaryInputs ==
    {CompactorInput("compact_with_summary", messages, keep_recent, summary, "summary", 0) :
        messages \in SeqsUpTo(MsgPool, MaxMsgs), keep_recent \in 0..MaxKeep,
        summary \in {<<>>, <<"summary text">>}}

CompactConversationInputs ==
    {CompactorInput("compact_conversation", messages, keep_recent, <<>>, outcome, 0) :
        messages \in SeqsUpTo(MsgPool, MaxMsgs), keep_recent \in 0..MaxKeep,
        outcome \in SummarizerOutcomes}

\* the memory stage on short lists of every total length and on a long list
MemoryMiddlewareInputs ==
    {CompactorInput("memory_middleware", messages, KeepRecent, <<>>, outcome, 0) :
        messages \in {i.messages : i \in ShouldCompactInputs} \cup {<<>>, History},
        outcome \in SummarizerOutcomes}

InitCompactor ==
    /\ Standalone("compactor")
    /\ fn_in \in ShouldCompactInputs \cup CompactWithSummaryInputs
                \cup CompactConversationInputs \cup MemoryMiddlewareInputs
    /\ fn_out = NoValue

Returned(kind, value) ==
    /\ pc' = "returned"
    /\ fn_out' = [kind |-> kind, value |-> value]
    /\ UNCHANGED fn_in
    /\ UNCHANGED LoopState
    /\ UNCHANGED LoopVars

CallShouldCompact ==
    /\ pc = "compactor" /\ fn_in.kind = "should_compact"
    /\ Returned("bool", ShouldCompact(fn_in.messages))

CallCompactWithSummary ==
    /\ pc = "compactor" /\ fn_in.kind = "compact_with_summary"
    /\ Returned("messages",
                CompactWithSummary(fn_in.messages, fn_in.summary, fn_in.keep_recent))

CallCompactConversation ==
    /\ pc = "compactor" /\ fn_in.kind = "compact_conversation"
    /\ Returned("summary",
                CompactConversation(fn_in.messages, fn_in.keep_recent, fn_in.outcome))

CallMemoryMiddleware ==
    /\ pc = "compactor" /\ fn_in.kind = "memory_middleware"
    /\ Returned("state",
                MemoryMiddleware(StateOf(fn_in.messages, BaseKeys, <<>>), fn_in.outcome))

NextCompactor ==
    \/ CallShouldCompact
    \/ CallCompactWithSummary
    \/ CallCompactConversation
    \/ CallMemoryMiddleware

SpecCompactor == InitCompactor /\ [][NextCompactor]_vars

\* C16 as stated: with threshold T, should_compact is false at 4*T content
\* characters and true at 4*T + 1: it is true exactly above 4*T characters.
C16_TriggersAboveFourT ==
    (pc = "returned" /\ fn_in.kind = "should_compact") =>
        (fn_out.value <=> fn_in.chars > 4 * Threshold)

\* C16 amended: with threshold T, should_compact is false for every total of
\* up to 4*T + 3 content characters and true from 4*T + 4 characters on: the
\* estimate is the total divided by four and rounded down, and it must exceed
\* T.
C16_TriggersFromFourTPlusFour ==
    (pc = "returned" /\ fn_in.kind = "should_compact") =>
        (fn_out.value <=> fn_in.chars >= 4 * Threshold + 4)

C16_Witness ==
    /\ pc = "returned" /\ fn_in.kind = "should_compact"
    /\ fn_in.chars = 4 * Threshold + 4
    /\ Len(fn_in.messages) = 2
    /\ fn_out.value

C19_StagesNeverRaise ==
    pc = "raised" => llm_calls > 0

(***************************************************************************)
(* The error-recovery stage called turn after turn on its own output.      *)
(***************************************************************************)
\* most successive calls explored
MaxCalls == 5

RetryErrors ==
    { E_parent,
      <<"No such file or directory: ", "x.txt">>,
      <<"Permission denied: ", SL, "ws", SL, "x.txt">>,
      <<"Path outside allowed directories: ", SL, "etc">>,
      <<"Something went wrong">> }

\* states with an error and without retry_count
RetryInputs ==
    {[kind |-> "retry", st |-> StateOf(messages, keys \cup {"error"}, error)] :
        messages \in {<<>>, <<U_create>>, <<U_push>>, <<U_create, U_push>>},
        keys \in {{"messages"}, BaseKeys},
        error \in RetryErrors}
    \cup {[kind |-> "retry", st |-> StateOf(<<>>, {"error"}, error)] : error \in RetryErrors}

RetryResult(st, calls, ok) == [kind |-> "state", st |-> st, calls |-> calls, ok |-> ok]

InitRetry ==
    /\ Standalone("retry")
    /\ fn_in \in RetryInputs
    /\ fn_out = RetryResult(fn_in.st, 0, TRUE)

\* one more turn: the stage receives the state its previous call returned
CallErrorRecovery ==
    /\ pc = "retry"
    /\ fn_out.calls < MaxCalls
    /\ LET r == ErrorRecoveryMiddleware(fn_out.st)
       IN /\ fn_out' = RetryResult(r.st, fn_out.calls + 1, r.ok)
          /\ pc' = IF r.ok THEN "retry" ELSE "raised"
    /\ UNCHANGED fn_in
    /\ UNCHANGED LoopState
    /\ UNCHANGED LoopVars

NextRetry == CallErrorRecovery

SpecRetry == InitRetry /\ [][NextRetry]_vars

\* C20: from a state without retry_count, after the k-th successive call of
\* the error-recovery stage with the same error retry_count is k, and
\* max_retries_reached is true from the max_retries-th call on and on no
\* earlier call.
C20_CeilingAtMaxRetries ==
    pc = "retry" =>
        LET st == fn_out.st
            k == fn_out.calls
        IN /\ fn_out.ok
           /\ ("retry_count" \in st.keys) <=> k > 0
           /\ k > 0 => st.retry_count = k
           /\ ("max_retries_reached" \in st.keys /\ st.max_retries_reached) <=> k >= MaxRetries
           /\ st.error = fn_in.st.error

C20_Witness ==
    /\ pc = "retry"
    /\ fn_out.calls = MaxRetries
    /\ fn_out.st.max_retries_reached
    /\ fn_out.st.retry_count = MaxRetries
    /\ Len(fn_out.st.messages) = Len(fn_in.st.messages) + MaxRetries

(***************************************************************************)
(* The git-safety stage called on its own, once and then again on the      *)
(* state it returned.                                                      *)
(***************************************************************************)
\* longest message list given to the stage
MaxHist == 2

GitContents ==
    { <<"create", SP, "hello.txt">>,
      <<"git", SP, "push", SP, "--force", SP, "origin", SP, "main">>,
      <<"please", SP, "Force", SP, "Push", SP, "it">>,
      <<"git", SP, "reset", SP, "--hard">>,
      <<"Git", SP, "clean", SP, "-fd">>,
      <<"git", SP, "push", SP, "origin", SP, "main">>,
      <<"push", SP, "to", SP, "master">>,
      <<"git", SP, "push", SP, "origin", SP, "mainline">> }

GitMessages == {Msg("user", c) : c \in GitContents}

GitInputs ==
    {[kind |-> "git", st |-> StateOf(messages, BaseKeys, <<>>), enforce |-> e] :
        messages \in SeqsUpTo(GitMessages, MaxHist), e \in BOOLEAN}
    \cup {[kind |-> "git", st |-> StateOf(<<>>, {"session_id"}, <<>>), enforce |-> e] :
              e \in BOOLEAN}

GitResult(st, calls) == [kind |-> "state", st |-> st, calls |-> calls]

InitGit ==
    /\ Standalone("git")
    /\ fn_in \in GitInputs
    /\ fn_out = GitResult(fn_in.st, 0)

\* the stage receives the state its previous call returned, nothing added
CallGitSafety ==
    /\ pc = "git"
    /\ fn_out.calls < 2
    /\ fn_out' = GitResult(GitSafetyMiddleware(fn_out.st, fn_in.enforce), fn_out.calls + 1)
    /\ UNCHANGED <<pc, fn_in>>
    /\ UNCHANGED LoopState
    /\ UNCHANGED LoopVars

NextGit == CallGitSafety

SpecGit == InitGit /\ [][NextGit]_vars

\* the content is one of the dangerous operations of the list, in any case
Dangerous(content) == MatchingPatterns(content) # {}

\* C21: the git-safety stage looks at the most recent message only.  When
\* its content matches a dangerous pattern the stage appends exactly one
\* system warning and sets git_operation_blocked exactly in enforce mode;
\* when it matches none, the stage appends nothing and sets no flag,
\* whatever the earlier messages contain.
C21_WarnsOnLastMessageOnly ==
    (pc = "git" /\ fn_out.calls = 1) =>
        LET before == MessagesOf(fn_in.st)
            st == fn_out.st
        IN IF before # <<>> /\ Dangerous(Last(before).content)
           THEN /\ Len(st.messages) = Len(before) + 1
                /\ SubSeq(st.messages, 1, Len(before)) = before
                /\ Last(st.messages).role = "system"
                /\ Last(st.messages).content[1] = "WARNING: "
                /\ ("git_operation_blocked" \in st.keys) <=> fn_in.enforce
                /\ st.git_operation_blocked <=> fn_in.enforce
                /\ [st EXCEPT !.messages = before, !.keys = fn_in.st.keys,
                              !.git_operation_blocked = FALSE] = fn_in.st
           ELSE st = fn_in.st

C21_Witness ==
    /\ pc = "git" /\ fn_out.calls = 1
    /\ fn_in.enforce
    /\ Len(fn_in.st.messages) = 2
    /\ ~Dangerous(fn_in.st.messages[1].content)
    /\ Dangerous(fn_in.st.messages[2].content)
    /\ Len(fn_out.st.messages) = 3
    /\ fn_out.st.git_operation_blocked

\* C29: two successive applications of the git-safety stage with no message
\* added in between append at most one warning: the warning is not itself
\* matched as a dangerous operation.
C29_WarningNotRematched ==
    (pc = "git" /\ fn_out.calls = 2) =>
        Len(MessagesOf(fn_out.st)) <= Len(MessagesOf(fn_in.st)) + 1

(***************************************************************************)
(* The logging and audit stages called on their own, with the file they    *)
(* append to writable or not.                                              *)
(***************************************************************************)
\* states as the other stages leave them
ObservedStates ==
    {i.st : i \in RetryInputs}
    \cup {GitSafetyMiddleware(i.st, i.enforce) : i \in GitInputs}
    \cup {ErrorRecoveryMiddleware(i.st).st : i \in RetryInputs}
    \cup {MemoryMiddleware(StateOf(History, BaseKeys, <<>>), "summary")}

ObserveInputs ==
    {[kind |-> "observe", st |-> st, file |-> file, write |-> write] :
        st \in ObservedStates, file \in BOOLEAN, write \in WriteOutcomes}

Observed(stage, r) ==
    [kind |-> "observed", stage |-> stage, ok |-> r.ok, st |-> r.st, lines |-> r.lines]

InitObserve ==
    /\ Standalone("observe")
    /\ fn_in \in ObserveInputs
    /\ fn_out = NoValue

CallLogging ==
    /\ pc = "observe"
    /\ fn_out' = Observed("logging", LoggingStage(fn_in.st, fn_in.file, fn_in.write))
    /\ pc' = IF fn_out'.ok THEN "observed" ELSE "raised"
    /\ UNCHANGED fn_in
    /\ UNCHANGED LoopState
    /\ UNCHANGED LoopVars

CallAudit ==
    /\ pc = "observe"
    /\ fn_out' = Observed("audit", AuditStage(fn_in.st, fn_in.file, fn_in.write))
    /\ pc' = IF fn_out'.ok THEN "observed" ELSE "raised"
    /\ UNCHANGED fn_in
    /\ UNCHANGED LoopState
    /\ UNCHANGED LoopVars

NextObserve ==
    \/ CallLogging
    \/ CallAudit

SpecObserve == InitObserve /\ [][NextObserve]_vars

\* C22: the logging stage and the audit stage return the state they were
\* given, same keys, same values, same messages, and do not raise, also
\* when their file cannot be written.
C22_ObservationalStages ==
    pc # "observe" =>
        /\ pc = "observed"
        /\ fn_out.ok
        /\ fn_out.st = fn_in.st
        /\ (fn_in.file /\ fn_in.write = "written") <=> fn_out.lines # <<>>

C22_Witness ==
    /\ pc = "observed"
    /\ fn_out.stage = "logging"
    /\ fn_in.file /\ fn_in.write = "fails"
    /\ fn_in.st.git_operation_blocked
    /\ fn_out.st = fn_in.st

(***************************************************************************)
(* Auto-mkdir.                                                             *)
(***************************************************************************)
\* the iteration whose calls tool_calls holds, and how many of them are over
Executing == pc \in {"await_mkdir", "await_tool"}

BatchIteration == IF Executing THEN iteration ELSE iteration - 1

CallsOver == IF Executing THEN call_i - 1 ELSE Len(tool_calls)

\* the entries of the log made for call k of the current batch
EntriesOf(k, kind) ==
    {n \in 1..Len(calls_log) : /\ calls_log[n].iteration = BatchIteration
                               /\ calls_log[n].call = k
                               /\ calls_log[n].kind = kind}

\* the path or file_path argument of a call, when it has one
WritePath(call) ==
    IF ~(call.name.t = "str" /\ ContainsWriteFile(call.name.v) /\ call.args.t = "obj")
    THEN <<>>
    ELSE LET p == GetOr(call.args, K_path, JNone)
             q == GetOr(call.args, K_file_path, JNone)
         IN IF p.t = "str" /\ p.v # <<>> THEN p.v
            ELSE IF p.t # "str" /\ Truthy(p) THEN <<>>
            ELSE IF q.t = "str" THEN q.v ELSE <<>>

\* a write call with a path whose parent directory is not "."
NeedsParent(call) ==
    WritePath(call) # <<>> /\ PathStr(Parent(PathOf(WritePath(call)))) # <<".">>

\* the parent of the original path, joined to the workspace
JoinedParent(call) ==
    PathStr(Resolve(PathJoin(Workspace,
                             PathOf(StripDotSlash(PathStr(Parent(PathOf(WritePath(call)))))))))

\* what holds of call k once it is over (or, for the call under way, so far)
MkdirRule(k, wanted) ==
    LET call == tool_calls[k]
        mk == EntriesOf(k, "mkdir")
        inv == EntriesOf(k, "tool")
    IN /\ Cardinality(mk) = (IF wanted THEN 1 ELSE 0)
       /\ \A m \in mk :
              /\ ContainsCreateDirectory(calls_log[m].tool)
              /\ calls_log[m].args = PathArgs(JoinedParent(call))
              /\ \A n \in inv : m < n
       /\ (k <= CallsOver /\ FindTool(call.name) # 0 /\ ~ArgsFor(branch, call).raise
           /\ WritePath(call) # <<>>)
          => Cardinality(inv) = 1

\* C23 as stated: for a write_file call with a path or file_path argument,
\* create_directory is invoked if and only if the parent of the original
\* path is not ".".
C23_MkdirIffParentNotDot ==
    llm_calls > 0 =>
        \A k \in 1..Len(tool_calls) :
            (k <= CallsOver /\ WritePath(tool_calls[k]) # <<>>)
            => (EntriesOf(k, "mkdir") # {} <=> NeedsParent(tool_calls[k]))

\* C23 amended: for a write_file call with a path or file_path argument,
\* create_directory is invoked if and only if the parent of the original
\* path is not "." and the fetched list holds a capability whose name
\* contains create_directory.  It is then invoked once, with the parent
\* joined to the workspace, before the write tool; whether it returns or
\* raises, the write tool is invoked afterwards.
C23_MkdirWhenCapabilityFetched ==
    llm_calls > 0 =>
        /\ \A k \in 1..Len(tool_calls) :
               (k <= CallsOver /\ WritePath(tool_calls[k]) # <<>>)
               => MkdirRule(k, NeedsParent(tool_calls[k]) /\ FindMkdirTool # 0)
        /\ (pc = "await_tool" /\ WritePath(tool_calls[call_i]) # <<>>)
           => MkdirRule(call_i, NeedsParent(tool_calls[call_i]) /\ FindMkdirTool # 0)
        /\ pc = "await_mkdir"
           => /\ NeedsParent(tool_calls[call_i])
              /\ MkdirRule(call_i, TRUE)
              /\ EntriesOf(call_i, "tool") = {}

C23_Witness ==
    /\ pc = "call_llm" /\ llm_calls = 1 /\ branch = "text"
    /\ \E k \in 1..Len(tool_calls) :
           /\ NeedsParent(tool_calls[k])
           /\ \E m \in EntriesOf(k, "mkdir"), n \in EntriesOf(k, "tool") :
                  /\ calls_log[m].status = "raised"
                  /\ calls_log[n].status = "returned"
                  /\ calls_log[n].args # tool_calls[k].args

(***************************************************************************)
(* The results message of the text branch.                                 *)
(***************************************************************************)
StartsWith(line, prefix) ==
    Len(line) >= Len(prefix) /\ SubSeq(line, 1, Len(prefix)) = prefix

\* a text batch of at least one call has just been completed
TextBatchOver ==
    /\ pc \in {"call_llm", "done"}
    /\ llm_calls > 0
    /\ branch = "text"
    /\ tool_calls # <<>>

\* call k of the batch ended in the except clause
CallRaised(k) ==
    \/ AutoMkdir(tool_calls[k]).raise
    \/ ArgsFor("text", tool_calls[k]).raise
    \/ \E n \in EntriesOf(k, "tool") : calls_log[n].status = "raised"

\* one human message after the response, the header and one line per call
OneResultsMessage ==
    /\ Len(lc_messages) >= 2
    /\ lc_messages[Len(lc_messages) - 1] = LcMsg("ai", last_response.content, "")
    /\ Last(lc_messages).type = "human"
    /\ Len(tool_results) = Len(tool_calls)
    /\ Last(lc_messages).content = <<"Tool execution results:", NL>> \o JoinLines(tool_results)

NamePrefix(k) == ToStr(tool_calls[k].name) \o <<": ">>

\* C24 as stated: after the K calls of a text batch one user-role message is
\* appended, "Tool execution results:" and K lines in call order, each line
\* "{name}: {result}" with its call's tool name, also when the call failed.
C24_EveryLineNamesItsTool ==
    TextBatchOver =>
        /\ OneResultsMessage
        /\ \A k \in 1..Len(tool_calls) : StartsWith(tool_results[k], NamePrefix(k))

\* C24 amended: one user-role message, the header and K lines in call order;
\* the line of a call that did not raise is "{name}: {result}" (the result
\* being "Error: Tool {name} not found" when nothing was invoked or the
\* capability returned nothing), and the line of a call that raised is
\* "Error: {exception}", without the tool name.
C24_RaisedLinesAreUnnamed ==
    TextBatchOver =>
        /\ OneResultsMessage
        /\ \A k \in 1..Len(tool_calls) :
               IF CallRaised(k)
               THEN /\ StartsWith(tool_results[k], <<"Error: ">>)
                    /\ ~StartsWith(tool_results[k], NamePrefix(k))
               ELSE StartsWith(tool_results[k], NamePrefix(k))

C24_Witness ==
    /\ TextBatchOver
    /\ Len(tool_calls) >= 2
    /\ \E j, k \in 1..Len(tool_calls) :
           /\ CallRaised(j) /\ tool_results[j] = <<"Error: ", "boom">>
           /\ ~CallRaised(k) /\ tool_results[k] = NamePrefix(k) \o <<"ok">>

(***************************************************************************)
(* Strategy 2 taken one turn of its outer while-loop at a time.            *)
(***************************************************************************)
\* most pieces a scanned text is made of
MaxPieces == 2

\* longest text put together from pieces
MaxScanLen == 38

S_call == JObj(<<Pair(K_name, JStr(<<"ls">>)), Pair(K_arguments, JObj(<<>>))>>)

S_nested == JObj(<<Pair(K_name, JStr(<<"run">>)), Pair(K_parameters, S_call)>>)

O_wrapped == JObj(<<Pair(<<"result">>, S_call)>>)

\* objects that are accepted, accepted with an object inside, and rejected
\* with an object inside; a span that does not parse; two opening braces
\* that nothing closes; prose
ScanPieces ==
    { Dumps(S_call, <<>>), Dumps(S_nested, <<>>), Dumps(O_wrapped, <<>>),
      <<LB, "x", RB>>, <<LB, SP, "oops">>, <<LB, Q, RB, Q>>, <<"then", SP>> }

RECURSIVE Concat(_)
Concat(pieces) == IF pieces = <<>> THEN <<>> ELSE Head(pieces) \o Concat(Tail(pieces))

ScanTexts ==
    {text \in {Concat(pieces) : pieces \in SeqsUpTo(ScanPieces, MaxPieces)} :
        Len(text) <= MaxScanLen}
    \cup {i.text : i \in EmbeddedInputs}

ScanState(i, spans, open, calls) ==
    [kind |-> "scan", i |-> i, spans |-> spans, open |-> open, calls |-> calls]

\* what the inner for-loop finds from each index of each text: the index j
\* of the balancing brace (0 when there is none) and the candidates of i..j
InnerLoop ==
    [text \in ScanTexts |->
        [i \in 1..Len(text) |->
            LET j == IF text[i] = LB THEN MatchClose(text, i, 0, FALSE, FALSE) ELSE 0
            IN [j |-> j, calls |-> IF j = 0 THEN <<>> ELSE SpanCalls(text, i, j)]]]

InitScan ==
    /\ Standalone("scan")
    /\ \E text \in ScanTexts : fn_in = [kind |-> "text", text |-> text]
    /\ fn_out = ScanState(1, <<>>, <<>>, <<>>)

\* one turn of the outer while-loop: spans are the balanced spans examined,
\* open the opening braces nothing balanced
ScanStep ==
    /\ pc = "scan"
    /\ fn_out.i <= Len(fn_in.text)
    /\ fn_out' =
           IF fn_in.text[fn_out.i] # LB
           THEN ScanState(NextScanIndex(fn_out.i), fn_out.spans, fn_out.open, fn_out.calls)
           ELSE IF InnerLoop[fn_in.text][fn_out.i].j = 0
           THEN ScanState(NextScanIndex(fn_out.i), fn_out.spans,
                          Append(fn_out.open, fn_out.i), fn_out.calls)
           ELSE ScanState(ResumeAt(fn_out.i, InnerLoop[fn_in.text][fn_out.i].j),
                          Append(fn_out.spans,
                                 [from |-> fn_out.i,
                                  to |-> InnerLoop[fn_in.text][fn_out.i].j,
                                  calls |-> InnerLoop[fn_in.text][fn_out.i].calls]),
                          fn_out.open,
                          fn_out.calls \o InnerLoop[fn_in.text][fn_out.i].calls)
    /\ UNCHANGED <<pc, fn_in>>
    /\ UNCHANGED LoopState
    /\ UNCHANGED LoopVars

\* "while i < len(content)" is false
ScanEnd ==
    /\ pc = "scan"
    /\ fn_out.i > Len(fn_in.text)
    /\ pc' = "scanned"
    /\ UNCHANGED <<fn_in, fn_out>>
    /\ UNCHANGED LoopState
    /\ UNCHANGED LoopVars

NextScan ==
    \/ ScanStep
    \/ ScanEnd

SpecScan == InitScan /\ [][NextScan]_vars

\* the while-loop runs for as long as its condition holds
SpecScanFair == SpecScan /\ WF_vars(NextScan)

\* the candidates that come from spans, in the order of the spans
RECURSIVE CallsOfSpans(_)
CallsOfSpans(spans) ==
    IF spans = <<>> THEN <<>> ELSE Head(spans).calls \o CallsOfSpans(Tail(spans))

\* C25: after a balanced span i..j has been examined, accepted or rejected,
\* the scan resumes at j + 1: no later span starts inside an earlier one,
\* and the returned candidates come from disjoint spans in increasing
\* textual position.
C25_SpansDisjointAndOrdered ==
    LET spans == fn_out.spans
        content == fn_in.text
    IN pc \in {"scan", "scanned"} =>
           /\ \A n \in 1..Len(spans) :
                  /\ content[spans[n].from] = LB /\ content[spans[n].to] = RB
                  /\ spans[n].from < spans[n].to
                  /\ n < Len(spans) => spans[n].to < spans[n + 1].from
           /\ spans # <<>> => fn_out.i > Last(spans).to
           /\ (spans # <<>> /\ (fn_out.open = <<>> \/ Last(fn_out.open) < Last(spans).from)
               /\ (fn_out.i - 1 > Len(content) \/ fn_out.i - 1 = Last(spans).to))
              => fn_out.i = Last(spans).to + 1
           /\ fn_out.calls = CallsOfSpans(spans)
           /\ pc = "scanned" => fn_out.calls = Strategy2(content)

C25_Witness ==
    /\ pc = "scanned"
    /\ Len(fn_out.spans) = 2
    /\ fn_out.spans[1].calls = <<>>
    /\ JsonLoads(SubSeq(fn_in.text, fn_out.spans[1].from, fn_out.spans[1].to)).ok
    /\ \E n \in (fn_out.spans[1].from + 1)..(fn_out.spans[1].to - 1) : fn_in.text[n] = LB
    /\ Len(fn_out.spans[2].calls) = 1
    /\ Len(fn_out.calls) = 1

\* C28: the scan ends on every text: each turn of the outer loop leaves the
\* index greater than it found it, also after an opening brace that nothing
\* balances and after a balanced span that does not parse.
C28_ScanTerminates ==
    /\ [][fn_out'.i > fn_out.i]_fn_out
    /\ <>(pc = "scanned")

C28_Witness ==
    /\ pc = "scanned"
    /\ fn_out.i = Len(fn_in.text) + 1
    /\ fn_out.open # <<>>
    /\ \E n \in 1..Len(fn_out.spans) :
           ~JsonLoads(SubSeq(fn_in.text, fn_out.spans[n].from, fn_out.spans[n].to)).ok

\* C26: whenever the memory stage sets compaction_metadata, the list was
\* compacted in that call: messages is one summary message followed by the
\* last keep_recent messages, new_count = kept_count + 1, and compacted_count
\* is at least 1.
C26_MetadataMeansCompacted ==
    (/\ pc = "returned" /\ fn_in.kind = "memory_middleware"
     /\ "compaction_metadata" \in fn_out.value.keys)
    => LET st == fn_out.value
           meta == st.compaction_metadata
       IN /\ Len(st.messages) = KeepRecent + 1
          /\ st.messages[1].role = "system"
          /\ Tail(st.messages) = LastN(fn_in.messages, KeepRecent)
          /\ meta.new_count = meta.kept_count + 1
          /\ meta.compacted_count >= 1

\* C27: for every keep_recent >= 0 and every list longer than keep_recent,
\* compact_with_summary returns keep_recent + 1 messages, never more
\* messages than it was given.
C27_CompactionNeverGrows ==
    (/\ pc = "returned" /\ fn_in.kind = "compact_with_summary"
     /\ Len(fn_in.messages) > fn_in.keep_recent)
    => /\ Len(fn_out.value) = fn_in.keep_recent + 1
       /\ Len(fn_out.value) <= Len(fn_in.messages)

\* C30: a call gets the result "Error: Tool {name} not found" only if no
\* fetched capability has that name: a capability that was found and
\* returned, whatever it returned, is not reported as not found.
C30_NotFoundOnlyWhenUnknown ==
    (InLoop /\ llm_calls > 0) =>
        \A k \in 1..Len(BatchResults) :
            (/\ k <= Len(tool_calls)
             /\ BatchResults[k] = NotFoundLine(branch, tool_calls[k].name))
            => FindTool(tool_calls[k].name) = 0

====
